---- MODULE Spec2Model ----
(***************************************************************************)
(* Model of the subprocess supervision registry of                         *)
(* src-tauri/src/process/registry.rs: the bounded output buffer            *)
(* (CircularOutputBuffer), the process table (ProcessRegistry) and the     *)
(* termination protocol (kill_process / kill_process_by_pid); and of the   *)
(* terminal commands of src-tauri/src/commands/terminal.rs.                *)
(*                                                                         *)
(* Text is modelled as the sequence of its UTF-8 bytes (a Rust String),    *)
(* so that len() counts bytes and slicing can fall inside a character.     *)
(***************************************************************************)
EXTENDS Integers, Sequences, FiniteSets, TLC

(***************************************************************************)
(* Bounds of the model.  The buffers are checked at limits scaled down     *)
(* from the registry's default configuration (1000 lines, 1 MiB) so that   *)
(* eviction, truncation and the byte limit are all reached.                *)
(***************************************************************************)
BUF_LINES == 2
BUF_BYTES == 4

\* '\n' as a byte
NL == 10

\* the two bytes of a two-byte UTF-8 character (U+00E9)
TwoByteChar == <<195, 169>>

\* polls of the wait loop of kill_process before its timeout has elapsed
\* (5 s of 100 ms sleeps in the source)
MAX_POLLS == 2

\* ids register_claude_session may still allocate
MAX_SESSIONS == 1

\* calls of generate_id by concurrent callers
MAX_IDS == 3

\* tokens a terminal command is made of
MAX_TOKENS == 4

\* the lines a producer submits to one run
MAX_SENT == 3

\* the seed of the id counter
NEXT_ID_START == 1000000

\* the chunks of the scripted appends: "a", "b", "c", ...
MAX_SCRIPT == 12

\* the limits CircularOutputBuffer::new accepts
MIN_LINES == 10
MAX_LINES == 10000
MIN_BYTES == 1024
MAX_BYTES == 100 * 1024 * 1024
MAX_COMMAND_LENGTH == 4096

VARIABLES
    cob,        \* a CircularOutputBuffer on its own
    cobCall,    \* the last call made on cob: [op, output, outcome]
    cobLog,     \* history of cob: the limits new was asked for, and the
                \* number of scripted appends since new or clear
    processes,  \* ProcessRegistry.processes: run_id -> ProcessHandle
    next_id,    \* ProcessRegistry.next_id
    table_lock, \* the mutex of processes: "free", "poisoned" or "held"
    child,      \* the Option<Child> cells the handles share: pid -> Some?
    os,         \* the operating system's processes: pid -> state
    target_os,  \* the platform the program was built for
    task,       \* the concurrent callers: their position and locals
    sent,       \* history: the lines appended to each run since it
                \* entered the table (kept by the specifications of the
                \* output and of the chosen run ids only)
    issued,     \* history: the ids generate_id has returned, in the order
                \* of its calls
    term        \* a request to the terminal commands and what came of it

bufVars == <<cob, cobCall, cobLog>>
regVars == <<processes, next_id, table_lock, child, os, target_os, task>>
histVars == <<sent, issued>>
notReg == <<cob, cobCall, cobLog, term>>
notBuf == <<processes, next_id, table_lock, child, os, target_os, task, sent,
            issued, term>>
vars == <<cob, cobCall, cobLog, processes, next_id, table_lock, child, os,
          target_os, task, sent, issued, term>>

(***************************************************************************)
(* Text helpers                                                            *)
(***************************************************************************)
\* str::ends_with('\n')
ends_with_newline(s) == Len(s) > 0 /\ s[Len(s)] = NL

\* str::is_char_boundary(i): the start or the end of the string, or a byte
\* that is not a UTF-8 continuation byte (0x80..0xBF)
is_char_boundary(s, i) ==
    \/ i = 0
    \/ i = Len(s)
    \/ (i > 0 /\ i < Len(s) /\ ~(s[i + 1] \in 128..191))

\* join(""): the concatenation of the lines
RECURSIVE Concat(_)
Concat(lines) ==
    IF lines = <<>> THEN <<>> ELSE Head(lines) \o Concat(Tail(lines))

\* the sum of the byte lengths of the lines
RECURSIVE SumLen(_)
SumLen(lines) ==
    IF lines = <<>> THEN 0 ELSE Len(Head(lines)) + SumLen(Tail(lines))

(***************************************************************************)
(* CircularOutputBuffer                                                    *)
(***************************************************************************)
\* the struct, with its limits already fixed
CircularOutputBuffer(lines, bytes) ==
    [buffer |-> <<>>, max_lines |-> lines, max_bytes |-> bytes,
     current_bytes |-> 0]

\* a mutant of new: the limits are taken as given
new_unclamped(max_lines, max_bytes) ==
    CircularOutputBuffer(max_lines, max_bytes)

\* a mutant of new: the upper limits are not applied
new_no_upper(max_lines, max_bytes) ==
    CircularOutputBuffer(
        IF max_lines > MIN_LINES THEN max_lines ELSE MIN_LINES,
        IF max_bytes > MIN_BYTES THEN max_bytes ELSE MIN_BYTES)

\* CircularOutputBuffer::new: x.max(lo).min(hi) for both limits
new(max_lines, max_bytes) ==
    LET lines_max == IF max_lines > MIN_LINES THEN max_lines ELSE MIN_LINES
        bytes_max == IF max_bytes > MIN_BYTES THEN max_bytes ELSE MIN_BYTES
    IN  CircularOutputBuffer(
            IF lines_max < MAX_LINES THEN lines_max ELSE MAX_LINES,
            IF bytes_max < MAX_BYTES THEN bytes_max ELSE MAX_BYTES)

\* the condition of the while loop of enforce_limits
over_limits(b) ==
    Len(b.buffer) > b.max_lines \/ b.current_bytes > b.max_bytes

\* a mutant of enforce_limits: only the line limit is enforced
RECURSIVE enforce_limits_lines_only(_)
enforce_limits_lines_only(b) ==
    IF Len(b.buffer) > b.max_lines
    THEN enforce_limits_lines_only(
             [b EXCEPT !.buffer = Tail(@),
                       !.current_bytes = @ - Len(Head(b.buffer))])
    ELSE [buf |-> b, exits |-> TRUE]

\* a mutant of enforce_limits: the newest line is evicted
RECURSIVE enforce_limits_pop_back(_)
enforce_limits_pop_back(b) ==
    IF over_limits(b)
    THEN IF b.buffer # <<>>
         THEN enforce_limits_pop_back(
                  [b EXCEPT !.buffer = SubSeq(@, 1, Len(@) - 1),
                            !.current_bytes =
                                @ - Len(b.buffer[Len(b.buffer)])])
         ELSE [buf |-> b, exits |-> FALSE]
    ELSE [buf |-> b, exits |-> TRUE]

\* enforce_limits: pops from the front while a limit is exceeded.  When a
\* limit is exceeded and the buffer is empty, pop_front returns None, nothing
\* changes and the loop never exits (exits = FALSE, buf the state it spins in).
RECURSIVE enforce_limits(_)
enforce_limits(b) ==
    IF over_limits(b)
    THEN IF b.buffer # <<>>
         THEN enforce_limits(
                  [b EXCEPT !.buffer = Tail(@),
                            !.current_bytes = @ - Len(Head(b.buffer))])
         ELSE [buf |-> b, exits |-> FALSE]
    ELSE [buf |-> b, exits |-> TRUE]

\* the line append builds from its input: a newline is added when missing
normalized(output) ==
    IF ~ends_with_newline(output) THEN output \o <<NL>> ELSE output

\* line[line.len() - max_bytes..]
tail_slice(line, max_bytes) ==
    SubSeq(line, Len(line) - max_bytes + 1, Len(line))

\* the slice of append panics when its start is not a char boundary
append_panics(b, output) ==
    /\ output # <<>>
    /\ Len(normalized(output)) > b.max_bytes
    /\ ~is_char_boundary(normalized(output),
                         Len(normalized(output)) - b.max_bytes)

\* the entry append pushes: the line, truncated when longer than max_bytes
pushed_line(b, output) ==
    IF Len(normalized(output)) > b.max_bytes
    THEN tail_slice(normalized(output), b.max_bytes)
    ELSE normalized(output)

\* a mutant of append: the line is pushed at the front
append_push_front(b, output) ==
    IF output = <<>>
    THEN [buf |-> b, outcome |-> "returned"]
    ELSE IF append_panics(b, output)
    THEN [buf |-> b, outcome |-> "panicked"]
    ELSE LET r == enforce_limits(
                      [b EXCEPT !.buffer = <<pushed_line(b, output)>> \o @,
                                !.current_bytes = @ + Len(normalized(output))])
         IN  [buf |-> r.buf,
              outcome |-> IF r.exits THEN "returned" ELSE "spinning"]

\* append: the buffer it leaves and how the call ends: "returned",
\* "panicked" (the slice; nothing was pushed yet) or "spinning" (the
\* eviction loop never exits)
append(b, output) ==
    IF output = <<>>
    THEN [buf |-> b, outcome |-> "returned"]
    ELSE IF append_panics(b, output)
    THEN [buf |-> b, outcome |-> "panicked"]
    ELSE LET r == enforce_limits(
                      [b EXCEPT !.buffer = Append(@, pushed_line(b, output)),
                                !.current_bytes = @ + Len(normalized(output))])
         IN  [buf |-> r.buf,
              outcome |-> IF r.exits THEN "returned" ELSE "spinning"]

get_all(b) == Concat(b.buffer)

\* a mutant of get_recent: the first lines are taken, not the last
get_recent_first(b, lines) ==
    LET lines_to_get == IF lines < Len(b.buffer) THEN lines ELSE Len(b.buffer)
    IN  IF lines_to_get = 0
        THEN <<>>
        ELSE Concat(SubSeq(b.buffer, 1, lines_to_get))

get_recent(b, lines) ==
    LET lines_to_get == IF lines < Len(b.buffer) THEN lines ELSE Len(b.buffer)
    IN  IF lines_to_get = 0
        THEN <<>>
        ELSE Concat(SubSeq(b.buffer, Len(b.buffer) - lines_to_get + 1,
                           Len(b.buffer)))

clear(b) == [b EXCEPT !.buffer = <<>>, !.current_bytes = 0]

len(b) == Len(b.buffer)

total_bytes(b) == b.current_bytes

(***************************************************************************)
(* Inputs of the buffer specification                                      *)
(***************************************************************************)
\* n ASCII bytes, all different, so that a suffix is told from a prefix
Fill(n) == [i \in 1..n |-> 96 + i]

\* the longest chunk: longer than twice max_bytes
MaxChunk == 2 * BUF_BYTES + 1

Chunks ==
    {Fill(n) : n \in 0..MaxChunk}
        \cup {Fill(n) \o <<NL>> : n \in 0..MaxChunk}
        \cup {TwoByteChar \o Fill(n) :
                  n \in (BUF_BYTES - 2)..BUF_BYTES}
        \cup {<<97, NL, 98>>}

(***************************************************************************)
(* Inputs of the registry specifications                                   *)
(***************************************************************************)
\* run ids callers supply
RunIds == {1, 2}

\* ids the counter allocates within the bound
SessionIds == NEXT_ID_START .. (NEXT_ID_START + MAX_SESSIONS - 1)

AllIds == RunIds \cup SessionIds

\* OS process ids
Pids == {"p1", "p2"}

\* the concurrent callers of the multi-step operations
Tasks == {"t1", "t2"}

\* the chunks appended in the registry specification: one that fits, one
\* whose truncation cuts a character, one longer than twice max_bytes
RegChunks ==
    {Fill(1), TwoByteChar \o Fill(BUF_BYTES - 2), Fill(MaxChunk)}

(***************************************************************************)
(* ProcessInfo, ProcessHandle and the table                                *)
(***************************************************************************)
AgentRun(agent_id, agent_name) ==
    [tag |-> "AgentRun", agent_id |-> agent_id, agent_name |-> agent_name]

ClaudeSession(session_id) ==
    [tag |-> "ClaudeSession", session_id |-> session_id]

\* started_at (the wall clock at registration) is left out
ProcessInfo(run_id, process_type, pid, project_path, task_text, model) ==
    [run_id |-> run_id, process_type |-> process_type, pid |-> pid,
     project_path |-> project_path, task |-> task_text, model |-> model]

\* create_handle: child_arc names the Option<Child> cell of the handle,
\* "none" for a handle created without a child (its cell holds None for ever)
create_handle(run_id, info, child_arc) ==
    [info |-> info, child |-> child_arc,
     live_output |-> CircularOutputBuffer(BUF_LINES, BUF_BYTES)]

\* HashMap::insert
\* a mutant of Insert: an existing entry is kept
InsertIfAbsent(map, key, value) ==
    IF key \in DOMAIN map THEN map
    ELSE [k \in DOMAIN map \cup {key} |-> IF k = key THEN value ELSE map[k]]

Insert(map, key, value) ==
    [k \in DOMAIN map \cup {key} |-> IF k = key THEN value ELSE map[k]]

\* a mutant of Remove: the table is emptied
RemoveAll(map, keys) == [k \in {} |-> map[k]]

\* a mutant of Remove: nothing is removed
RemoveNothing(map, keys) == map

\* HashMap::remove of a set of keys
Remove(map, keys) == [k \in DOMAIN map \ keys |-> map[k]]

\* a mutant of register_process_internal: a record that is replaced hands its
\* buffer to the new record
register_process_internal_keep_output(run_id, info, child_arc) ==
    Insert(processes, run_id,
           [create_handle(run_id, info, child_arc) EXCEPT
               !.live_output = IF run_id \in DOMAIN processes
                               THEN processes[run_id].live_output
                               ELSE @])

\* register_process_internal: the table after the insert
register_process_internal(run_id, info, child_arc) ==
    Insert(processes, run_id, create_handle(run_id, info, child_arc))

\* get_process, under a free lock: Some(info) or None
get_process(run_id) ==
    IF run_id \in DOMAIN processes
    THEN [some |-> TRUE, info |-> processes[run_id].info]
    ELSE [some |-> FALSE]

\* get_running_processes: the infos of all records
get_running_processes == {processes[k].info : k \in DOMAIN processes}

\* get_live_output, under a free lock
get_live_output(run_id) ==
    IF run_id \in DOMAIN processes
    THEN get_all(processes[run_id].live_output)
    ELSE <<>>

\* get_recent_live_output, under a free lock
get_recent_live_output(run_id, lines) ==
    IF run_id \in DOMAIN processes
    THEN get_recent(processes[run_id].live_output, lines)
    ELSE <<>>

\* get_buffer_stats, under a free lock: Some((lines, bytes)) or None
get_buffer_stats(run_id) ==
    IF run_id \in DOMAIN processes
    THEN [some |-> TRUE,
          stats |-> <<len(processes[run_id].live_output),
                      total_bytes(processes[run_id].live_output)>>]
    ELSE [some |-> FALSE]

(***************************************************************************)
(* The operating system, as far as the registry sees it                    *)
(***************************************************************************)
\* os[pid] is "running" or "exited"; an exited process may still be a
\* zombie or already be reaped, which only the outcome of a command shows.

\* Child::try_wait on the child of pid: Ok(None) while it runs, Ok(Some) once
\* it has exited, or an error
TryWait(pid) ==
    (IF os[pid] = "running" THEN {"None"} ELSE {"Some"}) \cup {"Err"}

\* Command::output() of kill / taskkill on pid: the command ran and
\* succeeded, ran and failed (no such process, no permission), or could not
\* be executed
KillCmd(pid) == {"success", "failure", "exec_error"}

(***************************************************************************)
(* Callers                                                                 *)
(***************************************************************************)
Idle ==
    [pc |-> "idle", op |-> "none", run_id |-> 0, pid |-> "none",
     child_arc |-> "none", from |-> "none", kill_result |-> "none",
     polls |-> 0, pending |-> {}, finished |-> {}, found |-> "none",
     ret |-> "none", guards |-> {}]

\* a lock is taken: its guard lives in the caller
lock_guard(guards, mutex) == guards \cup {mutex}

\* a mutant of drop_guard: the guard outlives its block
drop_guard_never(guards, mutex) == guards

\* the block of a guard ends, or it is dropped by name
drop_guard(guards, mutex) == guards \ {mutex}

\* the guards of a caller after a block that locks mutex and ends
locked_block(guards, mutex) == drop_guard(lock_guard(guards, mutex), mutex)

\* the operation of t has ended with ret
Done(t, ret) == [task[t] EXCEPT !.pc = "done", !.ret = ret]

\* the Some(child) held in the cell of a handle, if any
HoldsChild(child_arc) == child_arc # "none" /\ child[child_arc]

\* no handle and no caller refers to the cell of pid
Unreferenced(pid) ==
    /\ \A k \in DOMAIN processes : processes[k].child # pid
    /\ \A t \in Tasks : task[t].child_arc # pid

RegInit ==
    /\ processes = << >>
    /\ next_id = NEXT_ID_START
    /\ table_lock = "free"
    /\ child = [p \in Pids |-> FALSE]
    /\ os = [p \in Pids |-> "exited"]
    /\ target_os \in {"windows", "linux"}
    /\ task = [t \in Tasks |-> Idle]

(***************************************************************************)
(* Environment                                                             *)
(***************************************************************************)
\* a process outside the registry's control starts with this pid
ExternalSpawn(pid) ==
    /\ os[pid] = "exited"
    /\ ~child[pid]
    /\ Unreferenced(pid)
    /\ os' = [os EXCEPT ![pid] = "running"]
    /\ UNCHANGED <<processes, next_id, table_lock, child, target_os, task>>

\* a process exits
Exit(pid) ==
    /\ os[pid] = "running"
    /\ os' = [os EXCEPT ![pid] = "exited"]
    /\ UNCHANGED <<processes, next_id, table_lock, child, target_os, task>>

(***************************************************************************)
(* Registration, removal, output                                           *)
(***************************************************************************)
\* register_process: the caller has just spawned the child and hands it over
register_process(run_id, pid) ==
    /\ table_lock = "free"
    /\ os[pid] = "exited" /\ ~child[pid] /\ Unreferenced(pid)
    /\ os' = [os EXCEPT ![pid] = "running"]
    /\ child' = [child EXCEPT ![pid] = TRUE]
    /\ processes' = register_process_internal(
                        run_id,
                        ProcessInfo(run_id, AgentRun(7, "agent"), pid,
                                    "/project", "task", "model"),
                        pid)
    /\ UNCHANGED <<next_id, table_lock, target_os, task>>

register_sidecar_process(run_id, pid) ==
    /\ table_lock = "free"
    /\ processes' = register_process_internal(
                        run_id,
                        ProcessInfo(run_id, AgentRun(7, "agent"), pid,
                                    "/project", "task", "model"),
                        "none")
    /\ UNCHANGED <<next_id, table_lock, child, os, target_os, task>>

\* a mutant of generate_id: the counter is read and not advanced
generate_id_stuck(counter) == [id |-> counter, next |-> counter]

\* generate_id under the lock of next_id: the id it returns and the counter
\* it leaves
generate_id(counter) == [id |-> counter, next |-> counter + 1]

\* a direct call of generate_id
gi_call(t) ==
    /\ task[t] = Idle
    /\ next_id' = generate_id(next_id).next
    /\ task' = [task EXCEPT ![t] =
                   [Idle EXCEPT !.pc = "done", !.op = "generate_id",
                                !.run_id = generate_id(next_id).id,
                                !.ret = "ok"]]
    /\ UNCHANGED <<processes, table_lock, child, os, target_os>>

\* the history of generate_id: the id the call of t has just returned
Issue(t) == issued' = Append(issued, task'[t].run_id)

\* register_claude_session may still allocate an id
SessionsLeft == next_id < NEXT_ID_START + MAX_SESSIONS

\* register_claude_session, first step: generate_id
rcs_generate_id(t, pid) ==
    /\ task[t] = Idle
    /\ next_id' = generate_id(next_id).next
    /\ task' = [task EXCEPT ![t] =
                   [Idle EXCEPT !.pc = "rcs_register",
                                !.op = "register_claude_session",
                                !.run_id = generate_id(next_id).id,
                                !.pid = pid]]
    /\ UNCHANGED <<processes, table_lock, child, os, target_os>>

\* register_claude_session, second step: register_process_internal
rcs_register(t) ==
    /\ task[t].pc = "rcs_register"
    /\ table_lock # "held"
    /\ IF table_lock = "poisoned"
       THEN /\ task' = [task EXCEPT ![t] = Done(t, "lock_err")]
            /\ UNCHANGED processes
       ELSE /\ processes' = register_process_internal(
                                task[t].run_id,
                                ProcessInfo(task[t].run_id,
                                            ClaudeSession("session"),
                                            task[t].pid,
                                            "/project", "task", "model"),
                                "none")
            /\ task' = [task EXCEPT ![t] =
                           [Done(t, "ok") EXCEPT
                               !.guards = locked_block(@, "processes")]]
    /\ UNCHANGED <<next_id, table_lock, child, os, target_os>>

unregister_process(run_id) ==
    /\ table_lock = "free"
    /\ processes' = Remove(processes, {run_id})
    /\ UNCHANGED <<next_id, table_lock, child, os, target_os, task>>

\* a mutant of append_live_output: the record forgets its pid
append_live_output_no_pid(run_id, output) ==
    /\ table_lock = "free"
    /\ IF run_id \in DOMAIN processes
       THEN LET r == append(processes[run_id].live_output, output)
            IN  /\ processes' =
                       [processes EXCEPT ![run_id].live_output = r.buf,
                                         ![run_id].info.pid = "none"]
                /\ table_lock' = CASE r.outcome = "returned" -> "free"
                                   [] r.outcome = "panicked" -> "poisoned"
                                   [] OTHER -> "held"
       ELSE UNCHANGED <<processes, table_lock>>
    /\ UNCHANGED <<next_id, child, os, target_os, task>>

\* a mutant of append_live_output: an unknown id gets a record
append_live_output_upsert(run_id, output) ==
    /\ table_lock = "free"
    /\ LET h == IF run_id \in DOMAIN processes THEN processes[run_id]
                ELSE create_handle(run_id,
                                   ProcessInfo(run_id, AgentRun(7, "agent"),
                                               "p1", "/project", "task",
                                               "model"),
                                   "none")
           r == append(h.live_output, output)
       IN  /\ processes' =
                  Insert(processes, run_id, [h EXCEPT !.live_output = r.buf])
           /\ table_lock' = CASE r.outcome = "returned" -> "free"
                              [] r.outcome = "panicked" -> "poisoned"
                              [] OTHER -> "held"
    /\ UNCHANGED <<next_id, child, os, target_os, task>>

\* append_live_output: both locks are held while append runs, so a panic
\* poisons the table lock and a loop that never exits holds it for ever
append_live_output(run_id, output) ==
    /\ table_lock = "free"
    /\ IF run_id \in DOMAIN processes
       THEN LET r == append(processes[run_id].live_output, output)
            IN  /\ processes' =
                       [processes EXCEPT ![run_id].live_output = r.buf]
                /\ table_lock' = CASE r.outcome = "returned" -> "free"
                                   [] r.outcome = "panicked" -> "poisoned"
                                   [] OTHER -> "held"
       ELSE UNCHANGED <<processes, table_lock>>
    /\ UNCHANGED <<next_id, child, os, target_os, task>>

\* a call of get_process: Some(info) or None
gp_call(t, run_id) ==
    /\ task[t] = Idle
    /\ table_lock # "held"
    /\ task' = [task EXCEPT ![t] =
                   [Idle EXCEPT
                       !.pc = "done", !.op = "get_process",
                       !.run_id = run_id,
                       !.ret = IF table_lock = "poisoned" THEN "lock_err"
                               ELSE IF get_process(run_id).some THEN "some"
                               ELSE "none",
                       !.guards = locked_block(@, "processes")]]
    /\ UNCHANGED <<processes, next_id, table_lock, child, os, target_os>>

\* the append whose eviction loop cannot exit keeps running
append_spin ==
    /\ table_lock = "held"
    /\ UNCHANGED regVars

(***************************************************************************)
(* The terminal commands (commands/terminal.rs)                            *)
(***************************************************************************)
\* the whitelist: echo, pwd, ls, cat, grep, find, git
ALLOWED_COMMANDS ==
    {<<101, 99, 104, 111>>, <<112, 119, 100>>, <<108, 115>>,
     <<99, 97, 116>>, <<103, 114, 101, 112>>, <<102, 105, 110, 100>>,
     <<103, 105, 116>>}

\* char::is_whitespace, for the characters of one byte: tab, the line
\* breaks and the space
is_whitespace(byte) == byte \in {9, 10, 11, 12, 13, 32}

\* command.split_whitespace().next().unwrap_or(""): the first run of
\* characters that are not whitespace
first_word(text) ==
    IF \A i \in 1..Len(text) : is_whitespace(text[i])
    THEN <<>>
    ELSE LET first == CHOOSE i \in 1..Len(text) :
                          /\ ~is_whitespace(text[i])
                          /\ \A j \in 1..(i - 1) : is_whitespace(text[j])
             last == CHOOSE i \in first..Len(text) :
                         /\ \A j \in first..i : ~is_whitespace(text[j])
                         /\ i = Len(text) \/ is_whitespace(text[i + 1])
         IN  SubSeq(text, first, last)

\* Option<&String> working_dir: None, or a path with what validate_command
\* asks of it
None == [some |-> FALSE]

Dir(text, is_absolute, slash, drive_c, open_root) ==
    [some |-> TRUE, text |-> text, is_absolute |-> is_absolute,
     starts_with_slash |-> slash, starts_with_drive_c |-> drive_c,
     starts_with_open_root |-> open_root]

\* the check of the working directory; its inner block is compiled for
\* platforms other than Windows only
dir_refused(working_dir) ==
    /\ working_dir.some
    /\ working_dir.is_absolute
    /\ ~working_dir.starts_with_slash
    /\ ~working_dir.starts_with_drive_c
    /\ target_os # "windows"
    /\ ~working_dir.starts_with_open_root

Invalid(error_message) ==
    [is_valid |-> FALSE, error_message |-> error_message]

\* a mutant of validate_command: the whitelist is checked before the length
validate_command_whitelist_first(command, working_dir) ==
    IF first_word(command) \notin ALLOWED_COMMANDS
    THEN Invalid("Command not allowed")
    ELSE IF Len(command) > MAX_COMMAND_LENGTH
    THEN Invalid("Command exceeds maximum length")
    ELSE IF dir_refused(working_dir)
    THEN Invalid("Access to this directory is not allowed")
    ELSE [is_valid |-> TRUE, error_message |-> "none"]

\* validate_command; error_message is the fixed text its message starts with
validate_command(command, working_dir) ==
    IF Len(command) > MAX_COMMAND_LENGTH
    THEN Invalid("Command exceeds maximum length")
    ELSE IF first_word(command) \notin ALLOWED_COMMANDS
    THEN Invalid("Command not allowed")
    ELSE IF dir_refused(working_dir)
    THEN Invalid("Access to this directory is not allowed")
    ELSE [is_valid |-> TRUE, error_message |-> "none"]

\* what `sh -c command` starts: the shell takes the string as a list of
\* commands separated by ; or a line break and runs the first word of each
sh_programs(command) ==
    LET n == Len(command)
        cuts == {0, n + 1} \cup {i \in 1..n : command[i] \in {59, 10}}
        parts == {SubSeq(command, a + 1, b - 1) :
                      <<a, b>> \in
                          {c \in cuts \X cuts :
                               /\ c[1] < c[2]
                               /\ \A k \in cuts : ~(c[1] < k /\ k < c[2])}}
    IN  {first_word(part) : part \in parts} \ {<<>>}

\* a request that has not been handed to a command yet
NoRequest(command, working_dir) ==
    [op |-> "none", command |-> command, working_dir |-> working_dir,
     ret |-> "none", error_message |-> "none", spawned |-> FALSE,
     programs |-> {}]

\* the request was refused or failed with this message
Refused(op, error_message) ==
    [term EXCEPT !.op = op, !.ret = "err", !.error_message = error_message]

\* execute_terminal_command: validation, then sh -c command, whose start
\* may fail
execute_terminal_command ==
    /\ term.op = "none"
    /\ LET v == validate_command(term.command, term.working_dir)
       IN  IF ~v.is_valid
           THEN term' = Refused("execute_terminal_command", v.error_message)
           ELSE \/ term' = Refused("execute_terminal_command",
                                   "Failed to execute command")
                \/ term' = [term EXCEPT
                               !.op = "execute_terminal_command",
                               !.ret = "ok",
                               !.spawned = TRUE,
                               !.programs = sh_programs(term.command)]
    /\ UNCHANGED <<bufVars, regVars, histVars>>

\* execute_terminal_command_stream: validation, and nothing more yet
execute_terminal_command_stream ==
    /\ term.op = "none"
    /\ LET v == validate_command(term.command, term.working_dir)
       IN  term' = Refused("execute_terminal_command_stream",
                           IF ~v.is_valid THEN v.error_message
                           ELSE "Streaming not yet implemented")
    /\ UNCHANGED <<bufVars, regVars, histVars>>

\* the tokens of the requests: echo, rm, x, a space, a tab and ;
Tokens ==
    {<<101, 99, 104, 111>>, <<114, 109>>, <<120>>, <<32>>, <<9>>, <<59>>}

RECURSIVE TokenStrings(_)
TokenStrings(n) ==
    IF n = 0 THEN {<<>>}
    ELSE TokenStrings(n - 1)
             \cup {s \o t : s \in TokenStrings(n - 1), t \in Tokens}

\* n times the letter x
Pad(n) == [i \in 1..n |-> 120]

\* commands of MAX_COMMAND_LENGTH bytes and one more, with a first word
\* that is whitelisted and one that is not
LongCommands ==
    {word \o <<32>> \o Pad(n - Len(word) - 1) :
         word \in {<<101, 99, 104, 111>>, <<114, 109>>},
         n \in {MAX_COMMAND_LENGTH, MAX_COMMAND_LENGTH + 1}}

Commands == TokenStrings(MAX_TOKENS) \cup LongCommands

\* /home/user, /etc, a relative path and, absolute on Windows only, a path
\* on drive D
WorkingDirs ==
    {None,
     Dir("/home/user", target_os # "windows", TRUE, FALSE, TRUE),
     Dir("/etc", target_os # "windows", TRUE, FALSE, FALSE),
     Dir("work", FALSE, FALSE, FALSE, FALSE),
     Dir("D:\\work", target_os = "windows", FALSE, FALSE, FALSE)}

(***************************************************************************)
(* The buffer on its own: BufSpec                                          *)
(***************************************************************************)
\* an empty registry, and a buffer just constructed
Init ==
    /\ RegInit
    /\ cob = CircularOutputBuffer(BUF_LINES, BUF_BYTES)
    /\ cobCall = [op |-> "new", output |-> <<>>, outcome |-> "returned"]
    /\ cobLog = [max_lines |-> BUF_LINES, max_bytes |-> BUF_BYTES,
                 appended |-> 0]
    /\ sent = [k \in AllIds |-> <<>>]
    /\ issued = <<>>
    /\ term = NoRequest(<<>>, None)

\* a call is possible when the previous one is not still running
CobReady == cobCall.outcome # "spinning"

BufAppend(output) ==
    /\ CobReady
    /\ cob' = append(cob, output).buf
    /\ cobCall' = [op |-> "append", output |-> output,
                   outcome |-> append(cob, output).outcome]

BufClear ==
    /\ CobReady
    /\ cob' = clear(cob)
    /\ cobCall' = [op |-> "clear", output |-> <<>>, outcome |-> "returned"]

\* get_recent(lines): the call and the text it returns
BufGetRecent(lines) ==
    /\ CobReady
    /\ cobCall' = [op |-> "get_recent", output |-> <<>>,
                   outcome |-> "returned", lines |-> lines,
                   text |-> get_recent(cob, lines)]
    /\ UNCHANGED cob

\* the eviction loop that cannot exit keeps running
BufSpin ==
    /\ cobCall.outcome = "spinning"
    /\ UNCHANGED bufVars

BufNext ==
    \/ \E output \in Chunks :
           BufAppend(output) /\ UNCHANGED <<cobLog, notBuf>>
    \/ BufClear /\ UNCHANGED <<cobLog, notBuf>>
    \/ \E lines \in 0..(BUF_LINES + 1) :
           BufGetRecent(lines) /\ UNCHANGED <<cobLog, notBuf>>
    \/ BufSpin /\ UNCHANGED notBuf

BufSpec == Init /\ [][BufNext]_vars

(***************************************************************************)
(* The constructor and a script of appends: NewSpec                        *)
(***************************************************************************)
\* the limits new is called with: around and between its bounds
NewLines == {0, 3, MIN_LINES - 1, MIN_LINES, MIN_LINES + 1, 1000,
             MAX_LINES, MAX_LINES + 1}

NewBytes == {0, MIN_BYTES - 1, MIN_BYTES, MIN_BYTES + 1, 1024 * 1024,
             MAX_BYTES, MAX_BYTES + 1}

\* a buffer just made by new, next to an empty registry
NewInit ==
    /\ RegInit
    /\ target_os = "linux"
    /\ sent = [k \in AllIds |-> <<>>]
    /\ issued = <<>>
    /\ term = NoRequest(<<>>, None)
    /\ cobCall = [op |-> "new", output |-> <<>>, outcome |-> "returned"]
    /\ \E max_lines \in NewLines, max_bytes \in NewBytes :
           /\ cob = new(max_lines, max_bytes)
           /\ cobLog = [max_lines |-> max_lines, max_bytes |-> max_bytes,
                        appended |-> 0]

\* the i-th chunk of the script: one letter, no newline
ScriptChunk(i) == <<96 + i>>

\* the next chunk of the script is appended
ScriptAppend ==
    /\ cobLog.appended < MAX_SCRIPT
    /\ BufAppend(ScriptChunk(cobLog.appended + 1))
    /\ cobLog' = [cobLog EXCEPT !.appended = @ + 1]

\* clear, after which the script starts again
ScriptClear ==
    /\ BufClear
    /\ cobLog' = [cobLog EXCEPT !.appended = 0]

NewNext ==
    \/ ScriptAppend /\ UNCHANGED notBuf
    \/ ScriptClear /\ UNCHANGED notBuf

NewSpec == NewInit /\ [][NewNext]_vars

(***************************************************************************)
(* kill_process                                                            *)
(***************************************************************************)
\* a mutant of kp_lookup_frame: an unknown id is reported as killed
kp_lookup_frame_found(run_id) ==
    IF table_lock = "poisoned"
    THEN [Idle EXCEPT !.pc = "done", !.op = "kill_process",
                      !.run_id = run_id, !.ret = "lock_err"]
    ELSE IF run_id \in DOMAIN processes
    THEN [Idle EXCEPT !.pc = "kp_start_kill", !.op = "kill_process",
                      !.run_id = run_id,
                      !.pid = processes[run_id].info.pid,
                      !.child_arc = processes[run_id].child,
                      !.found = "present"]
    ELSE [Idle EXCEPT !.pc = "done", !.op = "kill_process",
                      !.run_id = run_id, !.found = "absent",
                      !.ret = "true"]

\* the lookup of kill_process under the table lock: the pid and the child
\* cell of the record, or the early return; found records what it saw
kp_lookup_frame(run_id) ==
    IF table_lock = "poisoned"
    THEN [Idle EXCEPT !.pc = "done", !.op = "kill_process",
                      !.run_id = run_id, !.ret = "lock_err"]
    ELSE IF run_id \in DOMAIN processes
    THEN [Idle EXCEPT !.pc = "kp_start_kill", !.op = "kill_process",
                      !.run_id = run_id,
                      !.pid = processes[run_id].info.pid,
                      !.child_arc = processes[run_id].child,
                      !.found = "present"]
    ELSE [Idle EXCEPT !.pc = "done", !.op = "kill_process",
                      !.run_id = run_id, !.found = "absent",
                      !.ret = "false"]

\* the call of kill_process and its lookup
kp_lookup(t, run_id) ==
    /\ task[t] = Idle
    /\ table_lock # "held"
    /\ task' = [task EXCEPT ![t] =
                   [kp_lookup_frame(run_id) EXCEPT
                       !.guards = locked_block(@, "processes")]]
    /\ UNCHANGED <<processes, next_id, table_lock, child, os, target_os>>

\* a mutant of after_start_kill: the wait loop follows in either case
after_start_kill_wait(kill_sent) == "kp_wait"

\* where kill_process goes once it knows whether the kill signal was sent
after_start_kill(kill_sent) ==
    IF kill_sent THEN "kp_wait" ELSE "kbp_term"

\* child.start_kill() through the handle, under the child lock
kp_start_kill(t) ==
    /\ task[t].pc = "kp_start_kill"
    /\ \E kill_sent \in IF HoldsChild(task[t].child_arc)
                        THEN {TRUE, FALSE} ELSE {FALSE} :
           task' = [task EXCEPT ![t].pc = after_start_kill(kill_sent),
                                ![t].from = IF kill_sent THEN "none"
                                            ELSE "fallback",
                                ![t].guards = locked_block(@, "child")]
    /\ UNCHANGED <<processes, next_id, table_lock, child, os, target_os>>

\* one pass of the wait loop: try_wait under the child lock
kp_wait(t) ==
    /\ task[t].pc = "kp_wait"
    /\ IF HoldsChild(task[t].child_arc)
       THEN \E status \in TryWait(task[t].child_arc) :
              CASE status = "Some" ->
                     /\ child' = [child EXCEPT ![task[t].child_arc] = FALSE]
                     /\ task' = [task EXCEPT
                                    ![t].pc = "kp_unregister",
                                    ![t].guards = locked_block(@, "child")]
                [] status = "None" ->
                     /\ task' = [task EXCEPT
                                    ![t].pc = "kp_sleep",
                                    ![t].guards = locked_block(@, "child")]
                     /\ UNCHANGED child
                [] OTHER ->
                     /\ task' = [task EXCEPT
                                    ![t].pc = "kp_unregister",
                                    ![t].guards = locked_block(@, "child")]
                     /\ UNCHANGED child
       ELSE /\ task' = [task EXCEPT
                                    ![t].pc = "kp_unregister",
                                    ![t].guards = locked_block(@, "child")]
            /\ UNCHANGED child
    /\ UNCHANGED <<processes, next_id, table_lock, os, target_os>>

\* the 100 ms sleep ends and the loop polls again
kp_wake(t) ==
    /\ task[t].pc = "kp_sleep"
    /\ task[t].polls < MAX_POLLS
    /\ task' = [task EXCEPT ![t].pc = "kp_wait", ![t].polls = @ + 1]
    /\ UNCHANGED <<processes, next_id, table_lock, child, os, target_os>>

\* the timeout elapses during the sleep: the handle is cleared and
\* kill_process_by_pid is called once more
kp_timeout(t) ==
    /\ task[t].pc = "kp_sleep"
    /\ child' = IF task[t].child_arc # "none"
                THEN [child EXCEPT ![task[t].child_arc] = FALSE]
                ELSE child
    /\ task' = [task EXCEPT ![t].pc = "kbp_term", ![t].from = "timeout",
                            ![t].guards = locked_block(@, "child")]
    /\ UNCHANGED <<processes, next_id, table_lock, os, target_os>>

\* a mutant of kp_result: a failed removal is reported as not found
kp_result_false(lock) == IF lock = "poisoned" THEN "lock_err" ELSE "false"

\* what kill_process returns after its final unregister_process
kp_result(lock) == IF lock = "poisoned" THEN "lock_err" ELSE "true"

\* a mutant of kp_unregister: a record that is already gone is an error
kp_unregister_strict(t) ==
    /\ task[t].pc = "kp_unregister"
    /\ table_lock # "held"
    /\ processes' = IF table_lock = "poisoned"
                    THEN processes
                    ELSE Remove(processes, {task[t].run_id})
    /\ task' = [task EXCEPT ![t] =
                   [Done(t, IF task[t].run_id \in DOMAIN processes
                            THEN kp_result(table_lock)
                            ELSE "error") EXCEPT
                       !.guards = locked_block(@, "processes")]]
    /\ UNCHANGED <<next_id, table_lock, child, os, target_os>>

\* unregister_process at the end of kill_process, and its return
kp_unregister(t) ==
    /\ task[t].pc = "kp_unregister"
    /\ table_lock # "held"
    /\ processes' = IF table_lock = "poisoned"
                    THEN processes
                    ELSE Remove(processes, {task[t].run_id})
    /\ task' = [task EXCEPT ![t] =
                   [Done(t, kp_result(table_lock)) EXCEPT
                       !.guards = locked_block(@, "processes")]]
    /\ UNCHANGED <<next_id, table_lock, child, os, target_os>>

(***************************************************************************)
(* kill_process_by_pid                                                     *)
(***************************************************************************)
\* a direct call
kbp_call(t, run_id, pid) ==
    /\ task[t] = Idle
    /\ task' = [task EXCEPT ![t] =
                   [Idle EXCEPT !.pc = "kbp_term",
                                !.op = "kill_process_by_pid",
                                !.run_id = run_id, !.pid = pid,
                                !.from = "direct"]]
    /\ UNCHANGED <<processes, next_id, table_lock, child, os, target_os>>

\* taskkill /F on Windows; kill -TERM elsewhere
kbp_term(t) ==
    /\ task[t].pc = "kbp_term"
    /\ \E out \in KillCmd(task[t].pid) :
           task' = [task EXCEPT
                       ![t].pc = IF target_os = "windows" THEN "kbp_finish"
                                 ELSE IF out = "success" THEN "kbp_grace"
                                 ELSE "kbp_kill",
                       ![t].kill_result = IF target_os = "windows"
                                          THEN out ELSE "none"]
    /\ UNCHANGED <<processes, next_id, table_lock, child, os, target_os>>

\* after the 2 s sleep: kill -0, and what follows from it
kbp_grace(t) ==
    /\ task[t].pc = "kbp_grace"
    /\ \E check \in KillCmd(task[t].pid) :
           task' = [task EXCEPT
                       ![t].pc = IF check = "success" THEN "kbp_kill"
                                 ELSE "kbp_finish",
                       ![t].kill_result = IF check = "success" THEN "none"
                                          ELSE "success"]
    /\ UNCHANGED <<processes, next_id, table_lock, child, os, target_os>>

\* kill -KILL
kbp_kill(t) ==
    /\ task[t].pc = "kbp_kill"
    /\ \E out \in KillCmd(task[t].pid) :
           task' = [task EXCEPT ![t].pc = "kbp_finish",
                                ![t].kill_result = out]
    /\ UNCHANGED <<processes, next_id, table_lock, child, os, target_os>>

\* a mutant of kbp_result: a kill command that ran counts as a kill
kbp_result_ran(kill_result, lock) ==
    CASE kill_result \in {"success", "failure"} ->
             IF lock = "poisoned" THEN "lock_err" ELSE "true"
      [] OTHER -> "exec_err"

\* what kill_process_by_pid returns for the result of the kill command
kbp_result(kill_result, lock) ==
    CASE kill_result = "success" ->
             IF lock = "poisoned" THEN "lock_err" ELSE "true"
      [] kill_result = "failure" -> "false"
      [] OTHER -> "exec_err"

\* a mutant of kbp_return: kill_process returns what the kill by pid after
\* its timeout returned
kbp_return_strict(frame, result) ==
    CASE frame.from = "fallback" /\ result # "true" ->
             [frame EXCEPT !.pc = "kp_wait", !.kill_result = "none"]
      [] OTHER ->
             [frame EXCEPT !.pc = "done", !.ret = result]

\* how the caller of kill_process_by_pid goes on with its result
kbp_return(frame, result) ==
    CASE frame.from = "direct" ->
             [frame EXCEPT !.pc = "done", !.ret = result]
      [] frame.from = "fallback" ->
             IF result = "true"
             THEN [frame EXCEPT !.pc = "done", !.ret = "true"]
             ELSE [frame EXCEPT !.pc = "kp_wait", !.kill_result = "none"]
      [] OTHER ->
             [frame EXCEPT !.pc = "kp_unregister", !.kill_result = "none"]

\* the match on kill_result: unregister_process on success
kbp_finish(t) ==
    /\ task[t].pc = "kbp_finish"
    /\ task[t].kill_result = "success" => table_lock # "held"
    /\ processes' = IF task[t].kill_result = "success" /\ table_lock = "free"
                    THEN Remove(processes, {task[t].run_id})
                    ELSE processes
    /\ task' = [task EXCEPT ![t] =
                   [kbp_return(task[t],
                               kbp_result(task[t].kill_result, table_lock))
                    EXCEPT !.guards = IF task[t].kill_result = "success"
                                      THEN locked_block(@, "processes")
                                      ELSE @]]
    /\ UNCHANGED <<next_id, table_lock, child, os, target_os>>

(***************************************************************************)
(* is_process_running and cleanup_finished_processes                       *)
(***************************************************************************)
\* a mutant of ipr_return: a record that is found is reported as running
ipr_return_found(frame, running) ==
    IF frame.op = "is_process_running"
    THEN [frame EXCEPT !.pc = "done",
                       !.ret = IF frame.run_id \in DOMAIN processes
                               THEN "true" ELSE "false"]
    ELSE [frame EXCEPT !.pc = "cf_next",
                       !.child_arc = "none",
                       !.finished = IF running THEN @
                                    ELSE @ \cup {frame.run_id}]

\* the frame of a caller of is_process_running once the answer is known
ipr_return(frame, running) ==
    IF frame.op = "is_process_running"
    THEN [frame EXCEPT !.pc = "done",
                       !.ret = IF running THEN "true" ELSE "false"]
    ELSE [frame EXCEPT !.pc = "cf_next",
                       !.child_arc = "none",
                       !.finished = IF running THEN @
                                    ELSE @ \cup {frame.run_id}]

\* the lookup of is_process_running under the table lock
ipr_lookup(frame, run_id) ==
    IF table_lock = "poisoned"
    THEN [frame EXCEPT !.pc = "done", !.run_id = run_id, !.ret = "lock_err"]
    ELSE IF run_id \in DOMAIN processes
    THEN [frame EXCEPT !.pc = "ipr_probe", !.run_id = run_id,
                       !.child_arc = processes[run_id].child,
                       !.guards = locked_block(@, "processes")]
    ELSE ipr_return([frame EXCEPT !.run_id = run_id,
                                  !.guards = locked_block(@, "processes")],
                    FALSE)

\* a direct call of is_process_running
ipr_call(t, run_id) ==
    /\ task[t] = Idle
    /\ table_lock # "held"
    /\ task' = [task EXCEPT ![t] =
                   ipr_lookup([Idle EXCEPT !.op = "is_process_running"],
                              run_id)]
    /\ UNCHANGED <<processes, next_id, table_lock, child, os, target_os>>

\* try_wait under the child lock
\* the frame of a caller once the block of its child guard has ended
probed(frame) == [frame EXCEPT !.guards = locked_block(@, "child")]

ipr_probe(t) ==
    /\ task[t].pc = "ipr_probe"
    /\ IF HoldsChild(task[t].child_arc)
       THEN \E status \in TryWait(task[t].child_arc) :
              CASE status = "Some" ->
                     /\ child' = [child EXCEPT ![task[t].child_arc] = FALSE]
                     /\ task' = [task EXCEPT ![t] =
                                    ipr_return(probed(task[t]), FALSE)]
                [] status = "None" ->
                     /\ task' = [task EXCEPT ![t] =
                                    ipr_return(probed(task[t]), TRUE)]
                     /\ UNCHANGED child
                [] OTHER ->
                     /\ child' = [child EXCEPT ![task[t].child_arc] = FALSE]
                     /\ task' = [task EXCEPT ![t] =
                                    ipr_return(probed(task[t]), FALSE)]
       ELSE /\ task' = [task EXCEPT ![t] =
                                    ipr_return(probed(task[t]), FALSE)]
            /\ UNCHANGED child
    /\ UNCHANGED <<processes, next_id, table_lock, os, target_os>>

\* cleanup_finished_processes: the snapshot of the keys
cf_snapshot(t) ==
    /\ task[t] = Idle
    /\ table_lock # "held"
    /\ task' = [task EXCEPT ![t] =
           IF table_lock = "poisoned"
           THEN [Idle EXCEPT !.pc = "done",
                             !.op = "cleanup_finished_processes",
                             !.ret = "lock_err"]
           ELSE [Idle EXCEPT !.pc = "cf_next",
                             !.op = "cleanup_finished_processes",
                             !.pending = DOMAIN processes,
                             !.guards = locked_block(@, "processes")]]
    /\ UNCHANGED <<processes, next_id, table_lock, child, os, target_os>>

\* the next id of the snapshot: the lookup of its is_process_running
cf_next(t) ==
    /\ task[t].pc = "cf_next"
    /\ table_lock # "held"
    /\ \E run_id \in task[t].pending :
           task' = [task EXCEPT ![t] =
                       ipr_lookup([task[t] EXCEPT !.pending = @ \ {run_id}],
                                  run_id)]
    /\ UNCHANGED <<processes, next_id, table_lock, child, os, target_os>>

\* a mutant of cf_removed: the records without a child handle are kept
cf_removed_with_handle(finished) ==
    {k \in finished \cap DOMAIN processes : processes[k].child # "none"}

\* a mutant of cf_removed: every record of the table is removed
cf_removed_all(finished) == DOMAIN processes

\* the ids the second phase removes
cf_removed(finished) == finished

\* the second phase: the finished ids are removed and returned
cf_remove(t) ==
    /\ task[t].pc = "cf_next"
    /\ task[t].pending = {}
    /\ table_lock # "held"
    /\ processes' = IF table_lock = "poisoned"
                    THEN processes
                    ELSE Remove(processes, cf_removed(task[t].finished))
    /\ task' = [task EXCEPT ![t] =
                   [Done(t, IF table_lock = "poisoned" THEN "lock_err"
                            ELSE "ok")
                    EXCEPT !.guards = locked_block(@, "processes")]]
    /\ UNCHANGED <<next_id, table_lock, child, os, target_os>>

\* the caller takes the result and is free for its next call
Return(t) ==
    /\ task[t].pc = "done"
    /\ task' = [task EXCEPT ![t] = Idle]
    /\ UNCHANGED <<processes, next_id, table_lock, child, os, target_os>>

(***************************************************************************)
(* The registry under concurrent callers: Spec                             *)
(***************************************************************************)
\* the chunks whose append the other operations can see: the truncation of
\* the first cuts a character, the second is longer than twice max_bytes
BadChunks ==
    {TwoByteChar \o Fill(BUF_BYTES - 2), Fill(MaxChunk)}

\* the termination protocol, one caller at a time running kill_process or
\* kill_process_by_pid, while other callers register, unregister and append
Next ==
    \/ \E pid \in Pids : ExternalSpawn(pid) /\ UNCHANGED <<notReg, histVars>>
    \/ \E pid \in Pids : Exit(pid) /\ UNCHANGED <<notReg, histVars>>
    \/ \E run_id \in RunIds, pid \in Pids :
           register_process(run_id, pid) /\ UNCHANGED <<notReg, histVars>>
    \/ \E run_id \in RunIds, pid \in Pids :
           register_sidecar_process(run_id, pid)
               /\ UNCHANGED <<notReg, histVars>>
    \/ \E run_id \in RunIds :
           unregister_process(run_id) /\ UNCHANGED <<notReg, histVars>>
    \/ \E run_id \in RunIds, output \in BadChunks :
           append_live_output(run_id, output) /\ UNCHANGED <<notReg, histVars>>
    \/ append_spin /\ UNCHANGED <<notReg, histVars>>
    \/ \E run_id \in RunIds :
           kp_lookup("t1", run_id) /\ UNCHANGED <<notReg, histVars>>
    \/ kp_start_kill("t1") /\ UNCHANGED <<notReg, histVars>>
    \/ kp_wait("t1") /\ UNCHANGED <<notReg, histVars>>
    \/ kp_wake("t1") /\ UNCHANGED <<notReg, histVars>>
    \/ kp_timeout("t1") /\ UNCHANGED <<notReg, histVars>>
    \/ kp_unregister("t1") /\ UNCHANGED <<notReg, histVars>>
    \/ \E run_id \in RunIds, pid \in Pids :
           kbp_call("t1", run_id, pid) /\ UNCHANGED <<notReg, histVars>>
    \/ kbp_term("t1") /\ UNCHANGED <<notReg, histVars>>
    \/ kbp_grace("t1") /\ UNCHANGED <<notReg, histVars>>
    \/ kbp_kill("t1") /\ UNCHANGED <<notReg, histVars>>
    \/ kbp_finish("t1") /\ UNCHANGED <<notReg, histVars>>
    \/ Return("t1") /\ UNCHANGED <<notReg, histVars>>

Spec == Init /\ [][Next]_vars

\* the steps of a call of kill_process or kill_process_by_pid in progress
KillSteps(t) ==
    \/ kp_start_kill(t)
    \/ kp_wait(t)
    \/ kp_wake(t)
    \/ kp_timeout(t)
    \/ kp_unregister(t)
    \/ kbp_term(t)
    \/ kbp_grace(t)
    \/ kbp_kill(t)
    \/ kbp_finish(t)

\* Spec with a fair scheduler: a call in progress whose next step is possible
\* takes it
LiveSpec ==
    /\ Init
    /\ [][Next]_vars
    /\ WF_vars(KillSteps("t1") /\ UNCHANGED <<notReg, histVars>>)

(***************************************************************************)
(* Registration and lookup: TableSpec                                      *)
(***************************************************************************)
\* one caller runs register_claude_session and is_process_running step by
\* step while other callers register, unregister and append, and processes
\* start and exit
TableNext ==
    \/ \E pid \in Pids : ExternalSpawn(pid) /\ UNCHANGED <<notReg, histVars>>
    \/ \E pid \in Pids : Exit(pid) /\ UNCHANGED <<notReg, histVars>>
    \/ \E run_id \in RunIds, pid \in Pids :
           register_process(run_id, pid) /\ UNCHANGED <<notReg, histVars>>
    \/ \E run_id \in RunIds, pid \in Pids :
           register_sidecar_process(run_id, pid)
               /\ UNCHANGED <<notReg, histVars>>
    \/ \E pid \in Pids :
           /\ SessionsLeft
           /\ rcs_generate_id("t1", pid)
           /\ Issue("t1")
           /\ UNCHANGED <<notReg, sent>>
    \/ rcs_register("t1") /\ UNCHANGED <<notReg, histVars>>
    \/ \E run_id \in AllIds :
           unregister_process(run_id) /\ UNCHANGED <<notReg, histVars>>
    \/ \E run_id \in RunIds, output \in BadChunks :
           append_live_output(run_id, output) /\ UNCHANGED <<notReg, histVars>>
    \/ append_spin /\ UNCHANGED <<notReg, histVars>>
    \/ \E run_id \in AllIds :
           ipr_call("t1", run_id) /\ UNCHANGED <<notReg, histVars>>
    \/ ipr_probe("t1") /\ UNCHANGED <<notReg, histVars>>
    \/ Return("t1") /\ UNCHANGED <<notReg, histVars>>

\* the registry of a unix host, just constructed
LinuxInit == Init /\ target_os = "linux"

TableSpec == LinuxInit /\ [][TableNext]_vars

(***************************************************************************)
(* The sweep, one operation at a time: SeqSpec                             *)
(***************************************************************************)
\* no call of the caller is in progress
Quiet == task["t1"].pc \in {"idle", "done"}

\* the operations of the table and cleanup_finished_processes, one at a
\* time: a call starts when no call is in progress; processes start and exit
\* at any time
SeqNext ==
    \/ \E pid \in Pids : ExternalSpawn(pid) /\ UNCHANGED <<notReg, histVars>>
    \/ \E pid \in Pids : Exit(pid) /\ UNCHANGED <<notReg, histVars>>
    \/ \E run_id \in RunIds, pid \in Pids :
           Quiet /\ register_process(run_id, pid)
               /\ UNCHANGED <<notReg, histVars>>
    \/ \E run_id \in RunIds, pid \in Pids :
           Quiet /\ register_sidecar_process(run_id, pid)
               /\ UNCHANGED <<notReg, histVars>>
    \/ \E pid \in Pids :
           /\ SessionsLeft
           /\ rcs_generate_id("t1", pid)
           /\ Issue("t1")
           /\ UNCHANGED <<notReg, sent>>
    \/ rcs_register("t1") /\ UNCHANGED <<notReg, histVars>>
    \/ \E run_id \in AllIds :
           Quiet /\ unregister_process(run_id)
               /\ UNCHANGED <<notReg, histVars>>
    \/ \E output \in RegChunks :
           Quiet /\ append_live_output(1, output)
               /\ UNCHANGED <<notReg, histVars>>
    \/ append_spin /\ UNCHANGED <<notReg, histVars>>
    \/ \E run_id \in AllIds :
           ipr_call("t1", run_id) /\ UNCHANGED <<notReg, histVars>>
    \/ ipr_probe("t1") /\ UNCHANGED <<notReg, histVars>>
    \/ cf_snapshot("t1") /\ UNCHANGED <<notReg, histVars>>
    \/ cf_next("t1") /\ UNCHANGED <<notReg, histVars>>
    \/ cf_remove("t1") /\ UNCHANGED <<notReg, histVars>>
    \/ Return("t1") /\ UNCHANGED <<notReg, histVars>>

SeqSpec == LinuxInit /\ [][SeqNext]_vars

(***************************************************************************)
(* Live output of concurrent runs: OutSpec                                 *)
(***************************************************************************)
\* the chunks of the producers: nothing, a line without and one with its
\* newline, a line of max_bytes + 1 bytes once normalised, and BadChunks
OutChunks ==
    {<<>>, Fill(1), Fill(2) \o <<NL>>, Fill(BUF_BYTES)} \cup BadChunks

\* a run starts: its record has a fresh buffer
OutRegister(run_id) ==
    /\ register_sidecar_process(run_id, "p1")
    /\ sent' = [sent EXCEPT ![run_id] = <<>>]
    /\ UNCHANGED <<notReg, issued>>

OutUnregister(run_id) ==
    /\ unregister_process(run_id)
    /\ sent' = [sent EXCEPT ![run_id] = <<>>]
    /\ UNCHANGED <<notReg, issued>>

\* a producer submits a chunk to a run; the history keeps the line of every
\* append that got as far as pushing it
OutAppend(run_id, output) ==
    /\ Len(sent[run_id]) < MAX_SENT
    /\ append_live_output(run_id, output)
    /\ sent' = IF /\ run_id \in DOMAIN processes
                  /\ output # <<>>
                  /\ ~append_panics(processes[run_id].live_output, output)
               THEN [sent EXCEPT ![run_id] = Append(@, normalized(output))]
               ELSE sent
    /\ UNCHANGED <<notReg, issued>>

\* two producers, one per run, whose appends interleave in any order
OutNext ==
    \/ \E run_id \in RunIds : OutRegister(run_id)
    \/ \E run_id \in RunIds : OutUnregister(run_id)
    \/ \E run_id \in RunIds, output \in OutChunks : OutAppend(run_id, output)
    \/ append_spin /\ UNCHANGED <<notReg, histVars>>

OutSpec == LinuxInit /\ [][OutNext]_vars

(***************************************************************************)
(* The id counter under concurrent callers: IdSpec                         *)
(***************************************************************************)
\* callers of generate_id and of register_claude_session, whose steps
\* interleave in any order
IdNext ==
    \/ \E t \in Tasks :
           /\ Len(issued) < MAX_IDS
           /\ gi_call(t)
           /\ Issue(t)
           /\ UNCHANGED <<notReg, sent>>
    \/ \E t \in Tasks :
           /\ Len(issued) < MAX_IDS
           /\ rcs_generate_id(t, "p1")
           /\ Issue(t)
           /\ UNCHANGED <<notReg, sent>>
    \/ \E t \in Tasks : rcs_register(t) /\ UNCHANGED <<notReg, histVars>>
    \/ \E t \in Tasks : Return(t) /\ UNCHANGED <<notReg, histVars>>

IdSpec == LinuxInit /\ [][IdNext]_vars

(***************************************************************************)
(* Every operation of the registry, one call at a time: OpsSpec            *)
(***************************************************************************)
OpsNext ==
    \/ \E pid \in Pids : ExternalSpawn(pid) /\ UNCHANGED <<notReg, histVars>>
    \/ \E pid \in Pids : Exit(pid) /\ UNCHANGED <<notReg, histVars>>
    \/ \E run_id \in RunIds, pid \in Pids :
           Quiet /\ register_process(run_id, pid)
               /\ UNCHANGED <<notReg, histVars>>
    \/ \E run_id \in RunIds, pid \in Pids :
           Quiet /\ register_sidecar_process(run_id, pid)
               /\ UNCHANGED <<notReg, histVars>>
    \/ /\ SessionsLeft
       /\ gi_call("t1")
       /\ Issue("t1")
       /\ UNCHANGED <<notReg, sent>>
    \/ \E run_id \in RunIds :
           Quiet /\ unregister_process(run_id)
               /\ UNCHANGED <<notReg, histVars>>
    \/ \E run_id \in RunIds :
           Quiet /\ append_live_output(run_id, Fill(1))
               /\ UNCHANGED <<notReg, histVars>>
    \/ \E run_id \in RunIds :
           gp_call("t1", run_id) /\ UNCHANGED <<notReg, histVars>>
    \/ \E run_id \in RunIds :
           ipr_call("t1", run_id) /\ UNCHANGED <<notReg, histVars>>
    \/ ipr_probe("t1") /\ UNCHANGED <<notReg, histVars>>
    \/ cf_snapshot("t1") /\ UNCHANGED <<notReg, histVars>>
    \/ cf_next("t1") /\ UNCHANGED <<notReg, histVars>>
    \/ cf_remove("t1") /\ UNCHANGED <<notReg, histVars>>
    \/ \E run_id \in RunIds :
           kp_lookup("t1", run_id) /\ UNCHANGED <<notReg, histVars>>
    \/ kp_start_kill("t1") /\ UNCHANGED <<notReg, histVars>>
    \/ kp_wait("t1") /\ UNCHANGED <<notReg, histVars>>
    \/ kp_wake("t1") /\ UNCHANGED <<notReg, histVars>>
    \/ kp_timeout("t1") /\ UNCHANGED <<notReg, histVars>>
    \/ kp_unregister("t1") /\ UNCHANGED <<notReg, histVars>>
    \/ kbp_term("t1") /\ UNCHANGED <<notReg, histVars>>
    \/ kbp_grace("t1") /\ UNCHANGED <<notReg, histVars>>
    \/ kbp_kill("t1") /\ UNCHANGED <<notReg, histVars>>
    \/ kbp_finish("t1") /\ UNCHANGED <<notReg, histVars>>
    \/ Return("t1") /\ UNCHANGED <<notReg, histVars>>

OpsSpec == LinuxInit /\ [][OpsNext]_vars

(***************************************************************************)
(* One request to the terminal commands: TermSpec                          *)
(***************************************************************************)
TermInit ==
    /\ RegInit
    /\ cob = CircularOutputBuffer(BUF_LINES, BUF_BYTES)
    /\ cobCall = [op |-> "new", output |-> <<>>, outcome |-> "returned"]
    /\ cobLog = [max_lines |-> BUF_LINES, max_bytes |-> BUF_BYTES,
                 appended |-> 0]
    /\ sent = [k \in AllIds |-> <<>>]
    /\ issued = <<>>
    /\ \E command \in Commands, working_dir \in WorkingDirs :
           term = NoRequest(command, working_dir)

TermNext ==
    \/ execute_terminal_command
    \/ execute_terminal_command_stream

TermSpec == TermInit /\ [][TermNext]_vars

(***************************************************************************)
(* Claims about the buffer (BufSpec)                                       *)
(***************************************************************************)
\* C1: whenever an append has returned, whatever the sizes of the chunks
\* appended so far, the buffer holds at most max_lines lines and its running
\* byte total is at most max_bytes.
C1_AppendKeepsLimits ==
    (cobCall.op = "append" /\ cobCall.outcome = "returned")
        => (len(cob) <= cob.max_lines /\ total_bytes(cob) <= cob.max_bytes)

\* an append of a chunk longer than max_bytes has returned
C1_OversizedAppendReturned ==
    /\ cobCall.op = "append"
    /\ cobCall.outcome = "returned"
    /\ Len(cobCall.output) > cob.max_bytes

\* C2: after an append of a chunk longer than max_bytes has returned, the
\* last retained line is the chunk's line cut to its last max_bytes bytes.
C2_OversizedChunkRetained ==
    (cobCall.op = "append" /\ cobCall.outcome = "returned"
        /\ Len(cobCall.output) > cob.max_bytes)
        => /\ len(cob) >= 1
           /\ cob.buffer[len(cob)] =
                  tail_slice(normalized(cobCall.output), cob.max_bytes)

\* the last n entries of a sequence
LastEntries(seq, n) == SubSeq(seq, Len(seq) - n + 1, Len(seq))

\* C14: get_recent(n) returns the end of get_all made of the last
\* min(n, len) retained lines: the empty text when n = 0 or the buffer is
\* empty, and get_all itself when n >= len.
C14_RecentIsTailOfAll ==
    cobCall.op = "get_recent" =>
        LET count == IF cobCall.lines < len(cob) THEN cobCall.lines
                     ELSE len(cob)
            bytes == SumLen(LastEntries(cob.buffer, count))
        IN  /\ cobCall.text = LastEntries(get_all(cob), bytes)
            /\ Len(cobCall.text) = bytes
            /\ (cobCall.lines = 0 \/ len(cob) = 0) => cobCall.text = <<>>
            /\ cobCall.lines >= len(cob) => cobCall.text = get_all(cob)

\* get_recent(1) has returned from a buffer of two different lines
C14_RecentOfTwoLines ==
    /\ cobCall.op = "get_recent"
    /\ cobCall.lines = 1
    /\ len(cob) = 2
    /\ cob.buffer[1] # cob.buffer[2]

\* C15, as stated: an append of the empty chunk changes neither the lines
\* nor the byte total; an append of a chunk that is not empty and,
\* normalised, is no longer than max_bytes leaves it as the last line: the
\* chunk itself when
\* it ends with a newline, the chunk and one newline otherwise, whatever
\* newlines it has inside; and the lines before it are lines that were
\* there, in their order.
C15_AppendAddsOneLine ==
    [][\A output \in Chunks :
          (BufAppend(output) /\ cobCall'.outcome = "returned") =>
              /\ output = <<>> => cob' = cob
              /\ (output # <<>> /\ Len(normalized(output)) <= cob.max_bytes)
                    => /\ len(cob') >= 1
                       /\ cob'.buffer[len(cob')] =
                              (IF output[Len(output)] = NL THEN output
                               ELSE output \o <<NL>>)
                       /\ cob'.buffer =
                              LastEntries(Append(cob.buffer,
                                                 cob'.buffer[len(cob')]),
                                          len(cob'))
      ]_vars

(***************************************************************************)
(* Claims about the termination protocol (Spec)                            *)
(***************************************************************************)
\* a call of kill_process by t has returned
KillReturned(t) == task[t].op = "kill_process" /\ task[t].pc = "done"

\* C3: kill_process returns Ok(false) exactly when its lookup found no record;
\* when the lookup found a record it returns Ok(true), whatever the signals
\* did, or the error of a poisoned table lock (the one error it propagates).
C3_KillFalseIffAbsent ==
    \A t \in Tasks :
        KillReturned(t) =>
            /\ (task[t].ret = "false") <=> (task[t].found = "absent")
            /\ task[t].found = "present" => task[t].ret \in {"true", "lock_err"}
            /\ task[t].ret \in {"true", "false", "lock_err"}
            /\ task[t].ret = "lock_err" => table_lock = "poisoned"

\* kill_process has returned true for a record without a child handle whose
\* pid names no running process
C3_KilledWithoutHandle ==
    \E t \in Tasks :
        /\ KillReturned(t)
        /\ task[t].found = "present"
        /\ task[t].ret = "true"
        /\ task[t].child_arc = "none"
        /\ os[task[t].pid] = "exited"

\* C4: a call of kill_process for a run id that is not registered (the table
\* lock being sound) returns false at once: the table, the id counter, the
\* child cells and the OS processes are unchanged, and the call takes no
\* further step, so it sends no signal.
C4_KillUnknownIsNoOp ==
    [][\A t \in Tasks :
          /\ (/\ task[t] = Idle
              /\ task'[t].op = "kill_process"
              /\ table_lock = "free"
              /\ task'[t].run_id \notin DOMAIN processes)
             => /\ task'[t].pc = "done"
                /\ task'[t].ret = "false"
                /\ UNCHANGED <<processes, next_id, table_lock, child, os>>
          /\ (task[t].op = "kill_process" /\ task[t].found = "absent")
             => (task'[t] = task[t] \/ task'[t] = Idle)
      ]_vars

\* kill_process has returned false while another record is registered
C4_KillUnknownReturned ==
    \E t \in Tasks :
        /\ KillReturned(t)
        /\ task[t].ret = "false"
        /\ task[t].run_id \notin DOMAIN processes
        /\ DOMAIN processes # {}

\* C5: in the state in which kill_process returns true, the record of its run
\* id is gone: get_process gives None and no list query shows the id; and
\* until the caller takes the result the id reappears only with a fresh
\* record, as register makes it.
C5_KillTrueRemoves ==
    [][\A t \in Tasks :
          /\ (task[t].pc # "done" /\ task'[t].pc = "done"
                 /\ task'[t].op = "kill_process" /\ task'[t].ret = "true")
             => /\ task'[t].run_id \notin DOMAIN processes'
                /\ \A k \in DOMAIN processes' :
                       processes'[k].info.run_id # task'[t].run_id
          /\ \A k \in RunIds :
                (k \notin DOMAIN processes /\ k \in DOMAIN processes')
                   => /\ processes'[k].live_output =
                            CircularOutputBuffer(BUF_LINES, BUF_BYTES)
                      /\ processes'[k].info.run_id = k
      ]_vars

\* kill_process has returned true for a process that had exited before the
\* call looked: its handle was held and the first probe found it exited
C5_KilledExited ==
    \E t \in Tasks :
        /\ KillReturned(t)
        /\ task[t].ret = "true"
        /\ task[t].child_arc # "none"
        /\ task[t].polls = 0
        /\ ~child[task[t].child_arc]
        /\ task[t].run_id \notin DOMAIN processes

\* C6: under a fair scheduler every call of kill_process returns.
C6_KillEventuallyReturns ==
    (task["t1"].op = "kill_process") ~> (task["t1"].pc = "done")

\* C16: while the table lock is sound, for a run id that is not registered
\* (never registered, or removed by kill or unregister) get_live_output and
\* get_recent_live_output return the empty text and get_buffer_stats
\* returns None; and append_live_output for such an id changes nothing: no
\* record appears and the lock stays sound.
C16_UnknownRunIsEmpty ==
    /\ [](table_lock = "free" =>
             \A run_id \in AllIds \ DOMAIN processes :
                 /\ get_live_output(run_id) = <<>>
                 /\ \A lines \in 0..BUF_LINES :
                        get_recent_live_output(run_id, lines) = <<>>
                 /\ ~get_buffer_stats(run_id).some)
    /\ [][\A run_id \in AllIds \ DOMAIN processes, output \in BadChunks :
             append_live_output(run_id, output)
                 => /\ UNCHANGED <<processes, table_lock>>
                    /\ run_id \notin DOMAIN processes'
         ]_vars

\* kill_process has removed a record after its wait loop slept, another
\* record is registered and the table lock is sound
C16_RemovedByKill ==
    \E t \in Tasks :
        /\ KillReturned(t)
        /\ task[t].ret = "true"
        /\ task[t].polls >= 1
        /\ task[t].run_id \notin DOMAIN processes
        /\ DOMAIN processes # {}
        /\ table_lock = "free"

(***************************************************************************)
(* Claims about the table and its sweep (TableSpec, SeqSpec)               *)
(***************************************************************************)
\* the answer of get_process for a record holding info
Some(info) == [some |-> TRUE, info |-> info]

\* C7: the step in which register_process, register_sidecar_process or
\* register_claude_session returns Ok for a run id leaves get_process of that
\* id answering the metadata registered (run id, kind, pid, project path,
\* task, model); and the answer of get_process for an id changes only by a
\* removal of its record or by a registration under that id, so it stays the
\* same until then and no id is seen before its registration has completed.
C7_RegisterThenGet ==
    [][/\ \A run_id \in RunIds, pid \in Pids :
            /\ register_process(run_id, pid)
                   => get_process(run_id)' =
                          Some(ProcessInfo(run_id, AgentRun(7, "agent"), pid,
                                           "/project", "task", "model"))
            /\ register_sidecar_process(run_id, pid)
                   => get_process(run_id)' =
                          Some(ProcessInfo(run_id, AgentRun(7, "agent"), pid,
                                           "/project", "task", "model"))
       /\ \A t \in Tasks :
            (rcs_register(t) /\ task'[t].ret = "ok")
                => get_process(task[t].run_id)' =
                       Some(ProcessInfo(task[t].run_id,
                                        ClaudeSession("session"), task[t].pid,
                                        "/project", "task", "model"))
       /\ \A k \in AllIds :
            (get_process(k)' # get_process(k))
                => \/ ~get_process(k)'.some
                   \/ \E pid \in Pids : register_process(k, pid)
                   \/ \E pid \in Pids : register_sidecar_process(k, pid)
                   \/ \E t \in Tasks : rcs_register(t) /\ task[t].run_id = k
      ]_vars

\* register_claude_session has returned Ok and its id answers the session's
\* metadata, next to a record with a child handle and one without
C7_AllThreeRegistered ==
    /\ task["t1"].op = "register_claude_session"
    /\ task["t1"].pc = "done"
    /\ task["t1"].ret = "ok"
    /\ get_process(task["t1"].run_id).some
    /\ get_process(task["t1"].run_id).info.process_type =
           ClaudeSession("session")
    /\ \E k \in RunIds : k \in DOMAIN processes /\ processes[k].child # "none"
    /\ \E k \in RunIds : k \in DOMAIN processes /\ processes[k].child = "none"

\* the registered ids whose record holds no child: those is_process_running
\* reports as not running once it has probed them
NotRunning == {k \in DOMAIN processes : ~HoldsChild(processes[k].child)}

\* C8: when no other operation runs during it, the step in which
\* cleanup_finished_processes returns Ok returns exactly the registered ids
\* reported not running and removes exactly their records; every other record
\* stays, its metadata, handle and buffer unchanged; and no earlier step of
\* the call changes the table.
C8_CleanupRemovesExactlyFinished ==
    [][task["t1"].op = "cleanup_finished_processes" =>
          /\ (task["t1"].pc # "done" /\ task'["t1"].pc = "done"
                  /\ task'["t1"].ret = "ok")
                 => /\ task'["t1"].finished = NotRunning
                    /\ DOMAIN processes' = DOMAIN processes \ NotRunning
                    /\ \A k \in DOMAIN processes' :
                           /\ processes'[k] = processes[k]
                           /\ HoldsChild(processes'[k].child)
          /\ (task'["t1"].pc # "done" /\ task'["t1"].pc # "idle")
                 => processes' = processes
      ]_vars

\* cleanup_finished_processes has returned two of three registered ids and
\* left the third, whose buffer holds a line
C8_TwoOfThreeRemoved ==
    /\ task["t1"].op = "cleanup_finished_processes"
    /\ task["t1"].pc = "done"
    /\ task["t1"].ret = "ok"
    /\ Cardinality(task["t1"].finished) = 2
    /\ DOMAIN processes = {1}
    /\ len(processes[1].live_output) = 1

\* C9: a step other than a call of unregister_process for it removes a record
\* only if the process of the record is not running (no kill is attempted in
\* SeqSpec, so no removed record's process was ever signalled).
C9_RemovedOnlyWhenGone ==
    [][\A k \in DOMAIN processes :
          (k \notin DOMAIN processes' /\ ~unregister_process(k))
              => os[processes[k].info.pid] # "running"
      ]_vars

(***************************************************************************)
(* Claims about live output (OutSpec)                                      *)
(***************************************************************************)
\* b is the last Len(b) entries of h
IsSuffix(b, h) ==
    /\ Len(b) <= Len(h)
    /\ b = SubSeq(h, Len(h) - Len(b) + 1, Len(h))

\* the lines submitted to a run fit in its buffer
UnderCapacity(run_id) ==
    /\ Len(sent[run_id]) <= processes[run_id].live_output.max_lines
    /\ SumLen(sent[run_id]) <= processes[run_id].live_output.max_bytes

\* C10: in every state appends to different runs can reach in any order, the
\* buffer of each run holds whole lines submitted to that run, the latest
\* ones in the order of submission, and all of them while they fit; a read
\* returns their concatenation; and an append to one run leaves the record of
\* every other run as it was.
C10_WholeChunksInOrder ==
    /\ [](\A r \in DOMAIN processes :
             /\ IsSuffix(processes[r].live_output.buffer, sent[r])
             /\ UnderCapacity(r) => get_live_output(r) = Concat(sent[r])
             /\ \E n \in 0..Len(sent[r]) :
                    get_live_output(r) =
                        Concat(SubSeq(sent[r], n + 1, Len(sent[r]))))
    /\ [][\A r \in RunIds, output \in OutChunks :
             append_live_output(r, output)
                 => \A q \in DOMAIN processes \ {r} :
                        q \in DOMAIN processes' /\ processes'[q] = processes[q]
         ]_vars

\* both producers have submitted lines in interleaved appends: run 1 holds
\* all of its two lines, run 2 the latest of its three after an eviction
C10_TwoProducers ==
    /\ DOMAIN processes = {1, 2}
    /\ table_lock = "free"
    /\ Len(sent[1]) = 2
    /\ processes[1].live_output.buffer = sent[1]
    /\ Len(sent[2]) = 3
    /\ sent[2][3] # sent[2][2]
    /\ len(processes[2].live_output) \in 1..2
    /\ get_live_output(2) # get_live_output(1)

(***************************************************************************)
(* Claims about locks and suspension (Spec)                                *)
(***************************************************************************)
\* the positions in which a caller sleeps or waits for a kill command: the
\* 100 ms sleep of the wait loop, kill -TERM or taskkill, the 2 s grace
\* sleep with its kill -0, kill -KILL
Suspended == {"kp_sleep", "kbp_term", "kbp_grace", "kbp_kill"}

\* C11: a caller that sleeps or waits for a kill command inside
\* kill_process or kill_process_by_pid holds no guard: not of the table
\* lock, not of a child cell, not of a buffer.
C11_NoGuardAcrossSuspension ==
    \A t \in Tasks : task[t].pc \in Suspended => task[t].guards = {}

\* kill_process is in the grace sleep of the kill by pid it calls after its
\* wait loop timed out: it has locked the table once and the child cell at
\* least three times
C11_GraceSleepAfterTimeout ==
    /\ task["t1"].op = "kill_process"
    /\ task["t1"].pc = "kbp_grace"
    /\ task["t1"].from = "timeout"

(***************************************************************************)
(* Claims about the constructor (NewSpec)                                  *)
(***************************************************************************)
\* the lines the script leaves for chunks first..last, each with its newline
RECURSIVE ScriptText(_, _)
ScriptText(first, last) ==
    IF first > last THEN <<>>
    ELSE ScriptChunk(first) \o <<NL>> \o ScriptText(first + 1, last)

\* C12, as stated: in a buffer made with max_lines = 3, after "a", "b", "c"
\* and "d" get_all is "b\nc\nd\n".
C12_FourthLineEvictsFirst ==
    (cobLog.max_lines = 3 /\ cobCall.op = "append" /\ cobLog.appended = 4)
        => get_all(cob) = ScriptText(2, 4)

\* C12, amended: a buffer made with max_lines = 3 holds MIN_LINES lines, so
\* after "a", "b", "c" and "d" get_all is "a\nb\nc\nd\n"; every chunk is
\* stored with one newline added, and the oldest line is evicted only when
\* more than MIN_LINES lines were appended: get_all is then the last
\* MIN_LINES lines of the script.
C12_ClampedBufferKeepsFour ==
    (cobLog.max_lines = 3 /\ cobCall.op = "append")
        => /\ cobLog.appended = 4 => get_all(cob) = ScriptText(1, 4)
           /\ cobLog.appended <= MIN_LINES
                  => get_all(cob) = ScriptText(1, cobLog.appended)
           /\ cobLog.appended > MIN_LINES
                  => get_all(cob) = ScriptText(cobLog.appended - MIN_LINES + 1,
                                               cobLog.appended)

\* "a", "b", "c" and "d" have been appended to a buffer made with
\* max_lines = 3
C12_FourAppended ==
    /\ cobLog.max_lines = 3
    /\ cobCall.op = "append"
    /\ cobCall.output = ScriptChunk(4)
    /\ cobLog.appended = 4

\* x clamped to lo..hi
Clamped(x, lo, hi) == IF x < lo THEN lo ELSE IF x > hi THEN hi ELSE x

\* C13: the buffer new(l, b) has max_lines = l clamped to 10..10000 and
\* max_bytes = b clamped to 1024..100 MiB, and no append or clear changes
\* them.
C13_LimitsClamped ==
    /\ cob.max_lines = Clamped(cobLog.max_lines, 10, 10000)
    /\ cob.max_bytes = Clamped(cobLog.max_bytes, 1024, 104857600)

\* more than MIN_LINES lines were appended to a buffer asked for more than
\* the largest line limit and less than the smallest byte limit
C13_BothLimitsClamped ==
    /\ cobLog.max_lines > MAX_LINES
    /\ cobLog.max_bytes < MIN_BYTES
    /\ cobCall.op = "append"
    /\ cobLog.appended > MIN_LINES

(***************************************************************************)
(* Claims about single operations of the table (TableSpec, Spec)           *)
(***************************************************************************)
\* C17: unregister_process(run_id) removes the record of run_id, whatever it
\* holds, and nothing else: every other record, the child cells, the
\* processes, the id counter and the callers stay as they are; for an id
\* that is not registered, a second call included, it changes nothing.
C17_UnregisterRemovesOne ==
    [][\A run_id \in AllIds :
          unregister_process(run_id) =>
              /\ DOMAIN processes' = DOMAIN processes \ {run_id}
              /\ \A k \in DOMAIN processes' : processes'[k] = processes[k]
              /\ run_id \notin DOMAIN processes => processes' = processes
              /\ UNCHANGED <<next_id, table_lock, child, os, task>>
      ]_vars

\* a child cell holds a running child no record refers to (its record was
\* unregistered while the process ran) and another record is registered
C17_RunningRecordUnregistered ==
    /\ DOMAIN processes # {}
    /\ \E pid \in Pids :
           /\ child[pid]
           /\ os[pid] = "running"
           /\ \A k \in DOMAIN processes : processes[k].child # pid
           /\ \A k \in DOMAIN processes : processes[k].info.pid # pid

\* a call of is_process_running by t returns in this step
IprReturns(t) ==
    /\ task[t].pc # "done"
    /\ task'[t].pc = "done"
    /\ task'[t].op = "is_process_running"
    /\ task'[t].ret \in {"true", "false"}

\* C18: is_process_running returns true only from a probe of a held child
\* handle that finds the process running, and the handle stays; when it
\* returns false the id was absent, or the record held no handle, or the
\* probe found the process exited or failed and the handle is cleared in
\* place; no step of it changes the table.
C18_RunningOnlyWhenProbed ==
    [][\A t \in Tasks :
          /\ (IprReturns(t) /\ task'[t].ret = "true")
                 => /\ task[t].pc = "ipr_probe"
                    /\ HoldsChild(task[t].child_arc)
                    /\ os[task[t].child_arc] = "running"
                    /\ UNCHANGED child
          /\ (IprReturns(t) /\ task'[t].ret = "false")
                 => \/ /\ task[t].pc = "idle"
                       /\ task'[t].run_id \notin DOMAIN processes
                       /\ UNCHANGED child
                    \/ /\ task[t].pc = "ipr_probe"
                       /\ ~HoldsChild(task[t].child_arc)
                       /\ UNCHANGED child
                    \/ /\ task[t].pc = "ipr_probe"
                       /\ HoldsChild(task[t].child_arc)
                       /\ child' = [child EXCEPT ![task[t].child_arc] = FALSE]
          /\ (task'[t] # task[t] /\ task'[t].op = "is_process_running")
                 => UNCHANGED processes
      ]_vars

\* is_process_running has returned false after its probe found the process
\* exited: the record is still registered and its handle is cleared
C18_ExitedHandleCleared ==
    /\ task["t1"].op = "is_process_running"
    /\ task["t1"].pc = "done"
    /\ task["t1"].ret = "false"
    /\ task["t1"].child_arc # "none"
    /\ os[task["t1"].child_arc] = "exited"
    /\ ~child[task["t1"].child_arc]
    /\ task["t1"].run_id \in DOMAIN processes
    /\ processes[task["t1"].run_id].child = task["t1"].child_arc

\* C19: a direct call of kill_process_by_pid(run_id, pid) ends by the result
\* of its kill command, whatever the record of run_id holds: success returns
\* true with the record of run_id removed (or the error of a poisoned table
\* lock), failure returns false and an error of execution returns an error,
\* both with the table unchanged.
C19_KillByPidResult ==
    [][\A t \in Tasks :
          (/\ task[t].op = "kill_process_by_pid"
           /\ task[t].pc = "kbp_finish"
           /\ task'[t].pc = "done")
          => /\ (task[t].kill_result = "success" /\ table_lock = "free")
                   => /\ task'[t].ret = "true"
                      /\ DOMAIN processes' =
                             DOMAIN processes \ {task[t].run_id}
                      /\ \A k \in DOMAIN processes' :
                             processes'[k] = processes[k]
             /\ (task[t].kill_result = "success" /\ table_lock = "poisoned")
                   => task'[t].ret = "lock_err" /\ UNCHANGED processes
             /\ task[t].kill_result = "failure"
                   => task'[t].ret = "false" /\ UNCHANGED processes
             /\ task[t].kill_result = "exec_error"
                   => task'[t].ret = "exec_err" /\ UNCHANGED processes
      ]_vars

\* kill_process_by_pid has returned true for a record whose child handle is
\* still held: the record is gone, the cell still holds the child
C19_KilledByPidWithHandle ==
    /\ task["t1"].op = "kill_process_by_pid"
    /\ task["t1"].pc = "done"
    /\ task["t1"].ret = "true"
    /\ child[task["t1"].pid]
    /\ task["t1"].run_id \notin DOMAIN processes

\* C20: when the kill by pid that kill_process calls as its fallback,
\* before the wait loop, could not execute its kill command, kill_process
\* returns that error.
C20_ExecErrorSurfaced ==
    [][\A t \in Tasks :
          (/\ task[t].op = "kill_process"
           /\ task[t].from = "fallback"
           /\ task[t].pc = "kbp_finish"
           /\ task[t].kill_result = "exec_error"
           /\ task'[t] # task[t])
          => task'[t].pc = "done" /\ task'[t].ret = "exec_err"
      ]_vars

\* C21: a direct call of kill_process_by_pid(run_id, pid) for a pid whose
\* process has exited, whose kill command could be executed, returns true
\* and the record of run_id is removed.
C21_GoneProcessIsSuccess ==
    [][\A t \in Tasks :
          (/\ task[t].op = "kill_process_by_pid"
           /\ task[t].pc = "kbp_finish"
           /\ task'[t].pc = "done"
           /\ os[task[t].pid] = "exited"
           /\ task[t].kill_result # "exec_error"
           /\ table_lock = "free")
          => /\ task'[t].ret = "true"
             /\ task[t].run_id \notin DOMAIN processes'
      ]_vars

\* C22: the first call of generate_id returns 1000000 and every later call
\* a strictly larger id than every call before it, whatever the
\* interleaving of the callers, those of register_claude_session included:
\* no two calls return the same id; and the counter never decreases.
C22_IdsStrictlyIncrease ==
    /\ [](issued # <<>> => issued[1] = 1000000)
    /\ [](\A i, j \in DOMAIN issued : i < j => issued[i] < issued[j])
    /\ [][next_id' >= next_id]_vars

\* two calls of register_claude_session are in progress at once, each with
\* its id, after an earlier call of generate_id
C22_ConcurrentSessions ==
    /\ Len(issued) = MAX_IDS
    /\ \A t \in Tasks :
           /\ task[t].op = "register_claude_session"
           /\ task[t].pc = "rcs_register"

(***************************************************************************)
(* Claims about the terminal commands (TermSpec)                           *)
(***************************************************************************)
\* C23: a request to execute_terminal_command or
\* execute_terminal_command_stream whose first word is not whitelisted
\* returns the error "Command not allowed" and starts no process; and
\* every program that is run for a request is one of the whitelist.
C23_OnlyWhitelistedRun ==
    /\ (term.op # "none" /\ first_word(term.command) \notin ALLOWED_COMMANDS)
           => /\ term.ret = "err"
              /\ term.error_message = "Command not allowed"
              /\ ~term.spawned
    /\ term.programs \subseteq ALLOWED_COMMANDS

\* C24: a request whose command is longer than 4096 bytes is refused with
\* the error "Command exceeds maximum length" and starts no process, whether
\* or not its first word is whitelisted.
C24_LengthCheckedFirst ==
    (term.op # "none" /\ Len(term.command) > 4096)
        => /\ term.ret = "err"
           /\ term.error_message = "Command exceeds maximum length"
           /\ ~term.spawned

\* a command of 4097 bytes whose first word is echo has been refused
C24_LongEchoRefused ==
    /\ term.op = "execute_terminal_command"
    /\ Len(term.command) = 4097
    /\ first_word(term.command) = <<101, 99, 104, 111>>
    /\ term.ret = "err"

(***************************************************************************)
(* Claims about the order of the termination protocol (Spec)               *)
(***************************************************************************)
\* the steps of a kill by pid
KbpSteps == {"kbp_term", "kbp_grace", "kbp_kill", "kbp_finish"}

\* C25: in kill_process the kill by pid is issued before the wait loop
\* exactly when the signal through the handle was not sent, which is always
\* so when the record holds no child; when the signal was sent the wait loop
\* follows, and a kill by pid starts later only from the timeout of the wait
\* loop.
C25_FallbackOnlyWithoutSignal ==
    [][\A t \in Tasks :
          (task[t].op = "kill_process" /\ task'[t] # task[t])
          => /\ task[t].pc = "kp_start_kill"
                   => /\ task'[t].pc \in {"kbp_term", "kp_wait"}
                      /\ task'[t].pc = "kbp_term"
                             <=> task'[t].from = "fallback"
                      /\ task'[t].pc = "kp_wait"
                             <=> task'[t].from = "none"
                      /\ ~HoldsChild(task[t].child_arc)
                             => task'[t].pc = "kbp_term"
             /\ (task[t].pc \notin KbpSteps /\ task'[t].pc \in KbpSteps)
                   => \/ /\ task[t].pc = "kp_start_kill"
                         /\ task'[t].from = "fallback"
                         /\ task[t].polls = 0
                      \/ /\ task[t].pc = "kp_sleep"
                         /\ task'[t].from = "timeout"
             /\ (/\ task[t].pc \in {"kp_wait", "kp_sleep"}
                 /\ task[t].from = "none"
                 /\ task'[t].pc \in KbpSteps)
                   => task[t].pc = "kp_sleep" /\ task'[t].from = "timeout"
      ]_vars

\* the record holds a child, the signal through the handle has failed and
\* the kill by pid is about to run, before any wait
C25_FallbackAfterFailedSignal ==
    /\ task["t1"].op = "kill_process"
    /\ task["t1"].pc = "kbp_term"
    /\ task["t1"].from = "fallback"
    /\ task["t1"].polls = 0
    /\ HoldsChild(task["t1"].child_arc)

\* C26: on a platform other than Windows kill_process_by_pid comes to send
\* SIGKILL only from the probe that follows SIGTERM and the grace sleep,
\* and only when that probe found the process alive.
C26_ForcefulOnlyAfterGrace ==
    [][\A t \in Tasks :
          (/\ target_os # "windows"
           /\ task[t].pc # "kbp_kill"
           /\ task'[t].pc = "kbp_kill")
          => task[t].pc = "kbp_grace"
      ]_vars

\* C27: when the wait loop of kill_process times out, the child cell is
\* cleared and one kill by pid follows; whatever its result, kill_process
\* goes on to its unregister_process without a second kill by pid and
\* without waiting again, and returns true with the record removed (or the
\* error of a poisoned table lock).
C27_TimeoutIsBestEffort ==
    [][\A t \in Tasks :
          (/\ task[t].op = "kill_process"
           /\ task[t].pc # "done"
           /\ task'[t] # task[t])
          => /\ (task[t].pc = "kp_sleep" /\ task'[t].pc # "kp_wait")
                   => /\ task'[t].pc = "kbp_term"
                      /\ task'[t].from = "timeout"
                      /\ ~child'[task[t].child_arc]
             /\ task[t].from = "timeout"
                   => /\ task'[t].pc \in KbpSteps \cup {"kp_unregister", "done"}
                      /\ task'[t].pc # "kbp_term"
                      /\ task[t].pc = "kbp_finish"
                             => task'[t].pc = "kp_unregister"
                      /\ task[t].pc = "kp_unregister"
                             => /\ task'[t].pc = "done"
                                /\ task'[t].ret \in {"true", "lock_err"}
                                /\ table_lock = "free"
                                      => /\ task'[t].ret = "true"
                                         /\ task[t].run_id
                                                \notin DOMAIN processes'
      ]_vars

\* kill_process has returned true after its timeout although the process
\* is still running
C27_ReturnedTrueAfterTimeout ==
    /\ task["t1"].op = "kill_process"
    /\ task["t1"].pc = "done"
    /\ task["t1"].from = "timeout"
    /\ task["t1"].ret = "true"
    /\ os[task["t1"].pid] = "running"
    /\ task["t1"].run_id \notin DOMAIN processes

(***************************************************************************)
(* Claims about the lines a buffer retains (OutSpec, BufSpec)              *)
(***************************************************************************)
\* the lines append pushed for these normalised lines: each one cut to its
\* last max_bytes bytes when it is longer
Pushed(lines, max_bytes) ==
    [i \in DOMAIN lines |->
        IF Len(lines[i]) > max_bytes
        THEN tail_slice(lines[i], max_bytes)
        ELSE lines[i]]

\* C28: after any sequence of appends to a run, the lines its buffer retains
\* are the last ones of all the lines appended, normalised and truncated,
\* in the order they were appended, and get_all returns their
\* concatenation; an append only adds its line at the end and drops lines
\* from the front.
C28_RetainedIsSuffixOfAppended ==
    /\ [](\A r \in DOMAIN processes :
             LET b == processes[r].live_output
                 all == Pushed(sent[r], b.max_bytes)
             IN  /\ IsSuffix(b.buffer, all)
                 /\ get_all(b) =
                        Concat(SubSeq(all, Len(all) - len(b) + 1, Len(all))))
    /\ [][\A r \in RunIds, output \in OutChunks :
             (OutAppend(r, output) /\ r \in DOMAIN processes
                  /\ sent'[r] # sent[r])
             => IsSuffix(processes'[r].live_output.buffer,
                         Append(processes[r].live_output.buffer,
                                pushed_line(processes[r].live_output,
                                            output)))
         ]_vars

\* three lines were appended to a run and the byte limit has evicted the
\* two oldest: the buffer retains the last one
C28_TwoOldestEvicted ==
    /\ 1 \in DOMAIN processes
    /\ Len(sent[1]) = 3
    /\ sent[1][2] # sent[1][3]
    /\ processes[1].live_output.buffer = <<sent[1][3]>>

(***************************************************************************)
(* Claims about the metadata of a record (OpsSpec)                         *)
(***************************************************************************)
\* this step registers run_id
Registers(run_id) ==
    \/ \E pid \in Pids : register_process(run_id, pid)
    \/ \E pid \in Pids : register_sidecar_process(run_id, pid)
    \/ \E t \in Tasks : task[t].run_id = run_id /\ rcs_register(t)

\* this step is the removal of run_id by unregister_process, by a kill of
\* run_id or by the sweep that found it finished
Removes(run_id) ==
    \/ unregister_process(run_id)
    \/ \E t \in Tasks :
           /\ task[t].run_id = run_id
           /\ kp_unregister(t) \/ kbp_finish(t)
    \/ \E t \in Tasks : run_id \in task[t].finished /\ cf_remove(t)

\* C29: the metadata of a registered record changes only in a register of
\* its run id, and the record goes only in an unregister, a kill or a sweep
\* of that id: appends, get_process, is_process_running, generate_id and
\* the kill, unregister or sweep of other ids leave it as it is; and
\* append_live_output(run_id, ..) changes nothing but the buffer of run_id.
C29_MetadataReadOnly ==
    [][\A r \in DOMAIN processes :
          /\ (r \in DOMAIN processes'
                 /\ processes'[r].info # processes[r].info)
                => Registers(r)
          /\ r \notin DOMAIN processes' => Removes(r)
          /\ \A output \in {Fill(1)} :
                 append_live_output(r, output)
                     => /\ processes' =
                               [processes EXCEPT ![r].live_output =
                                   processes'[r].live_output]
                        /\ UNCHANGED <<next_id, child, os, task>>
      ]_vars

\* a kill of run 2 has returned true while run 1, to which output was
\* appended, is still registered with the pid it was registered with
C29_OtherRunKilled ==
    /\ task["t1"].op = "kill_process"
    /\ task["t1"].pc = "done"
    /\ task["t1"].run_id = 2
    /\ task["t1"].ret = "true"
    /\ task["t1"].polls >= 1
    /\ DOMAIN processes = {1}
    /\ processes[1].info.pid = "p2"
    /\ len(processes[1].live_output) >= 1

(***************************************************************************)
(* Claims about the byte total of a buffer (BufSpec)                       *)
(***************************************************************************)
\* C30: whenever a call on the buffer has returned, after appends of chunks
\* of any size and after clear, total_bytes is the sum of the lengths of the
\* lines the buffer retains, so that it is 0 for an empty buffer.
C30_ByteTotalIsSum ==
    cobCall.outcome = "returned"
        => /\ total_bytes(cob) = SumLen(cob.buffer)
           /\ len(cob) = 0 => total_bytes(cob) = 0

(***************************************************************************)
(* Claims about termination and panics of append (BufSpec, OutSpec)        *)
(***************************************************************************)
\* C31: every append ends, whatever the buffer holds and whatever the chunk:
\* the eviction loop is never left running on an empty buffer whose byte
\* total is above max_bytes.
C31_AppendTerminates ==
    cobCall.outcome # "spinning"

(***************************************************************************)
(* Claims about blocking on the table lock (Spec)                          *)
(***************************************************************************)
\* the positions of a caller whose next step locks the table: the
\* unregister_process that ends kill_process, the one kill_process_by_pid
\* calls after a successful kill command, the lookups and the removal of
\* cleanup_finished_processes
LocksTableNext(t) ==
    \/ task[t].pc = "kp_unregister"
    \/ task[t].pc = "kbp_finish" /\ task[t].kill_result = "success"
    \/ task[t].pc = "cf_next"

C33_AppendNeverPoisons ==
    table_lock # "poisoned"

(***************************************************************************)
(* Run ids chosen by the callers: ReuseSpec                                *)
(***************************************************************************)
\* the run ids the callers of register_process and register_sidecar_process
\* supply: a small one and the first value of the counter of generate_id
CallerIds == {1, NEXT_ID_START}

\* callers register under ids of their choice, registered or not, append
\* and unregister, while one caller runs register_claude_session step by
\* step; processes exit at any time. The history of a run is emptied when
\* the run leaves the table, not when its record is replaced.
ReuseNext ==
    \/ \E pid \in Pids : Exit(pid) /\ UNCHANGED <<notReg, histVars>>
    \/ \E run_id \in CallerIds, pid \in Pids :
           register_process(run_id, pid) /\ UNCHANGED <<notReg, histVars>>
    \/ \E run_id \in CallerIds, pid \in Pids :
           register_sidecar_process(run_id, pid)
               /\ UNCHANGED <<notReg, histVars>>
    \/ \E pid \in Pids :
           /\ SessionsLeft
           /\ rcs_generate_id("t1", pid)
           /\ Issue("t1")
           /\ UNCHANGED <<notReg, sent>>
    \/ rcs_register("t1") /\ UNCHANGED <<notReg, histVars>>
    \/ \E run_id \in CallerIds : OutUnregister(run_id)
    \/ \E run_id \in CallerIds : OutAppend(run_id, Fill(1))
    \/ Return("t1") /\ UNCHANGED <<notReg, histVars>>

ReuseSpec == LinuxInit /\ [][ReuseNext]_vars

(***************************************************************************)
(* Claims about registering an id that is registered (ReuseSpec)           *)
(***************************************************************************)
\* the record of run_id after this step is a fresh one for info and
\* child_arc: its buffer is empty, the cell of the record it replaced is in
\* no record of the table, and the table has as many records as before
Replaced(run_id, info, child_arc) ==
    /\ get_process(run_id)'.some
    /\ get_process(run_id)'.info = info
    /\ processes'[run_id].child = child_arc
    /\ get_all(processes'[run_id].live_output) = <<>>
    /\ len(processes'[run_id].live_output) = 0
    /\ processes[run_id].child # "none" =>
           \A k \in DOMAIN processes' :
               processes'[k].child # processes[run_id].child
    /\ Cardinality(DOMAIN processes') = Cardinality(DOMAIN processes)
    /\ \A k \in DOMAIN processes \ {run_id} : processes'[k] = processes[k]

\* C34: a register of a run id that is in the table replaces its record:
\* get_process returns the new metadata, the buffer of the run is empty, the
\* child cell of the old record is no longer in the table and the number of
\* records is the same. (A register fails only on a poisoned table lock.)
C34_RegisterReplaces ==
    [][\A run_id \in CallerIds, pid \in Pids :
           /\ (run_id \in DOMAIN processes /\ register_process(run_id, pid))
                  => Replaced(run_id,
                              ProcessInfo(run_id, AgentRun(7, "agent"), pid,
                                          "/project", "task", "model"),
                              pid)
           /\ (/\ run_id \in DOMAIN processes
               /\ register_sidecar_process(run_id, pid))
                  => Replaced(run_id,
                              ProcessInfo(run_id, AgentRun(7, "agent"), pid,
                                          "/project", "task", "model"),
                              "none")]_vars

\* the record of run 1, which held the child p1 and two lines of output,
\* has been replaced: run 1 has not left the table since the lines were
\* appended, and its record has no child and no output
C34_OutputLostOnReRegister ==
    /\ Len(sent[1]) = 2
    /\ 1 \in DOMAIN processes
    /\ processes[1].info.pid = "p2"
    /\ processes[1].child = "none"
    /\ get_all(processes[1].live_output) = <<>>
    /\ child["p1"]

\* C37: register_claude_session replaces no record: when it inserts, the id
\* it took from the counter is the run id of no record of the table, the
\* records that callers registered under ids of their choice included.
C37_SessionNeverReplaces ==
    [][\A t \in Tasks :
           (table_lock = "free" /\ rcs_register(t))
               => task[t].run_id \notin DOMAIN processes]_vars

(***************************************************************************)
(* Claims about records without a child handle (SeqSpec)                   *)
(***************************************************************************)
\* C35: a record registered without a child handle (by
\* register_sidecar_process or register_claude_session) is reported not
\* running by every probe of is_process_running, in a direct call and in a
\* sweep; and a sweep that returns Ok, no other operation running during
\* it, removes every such record and returns its id, whether the process of
\* the record is alive or not.
C35_HandlelessAlwaysSwept ==
    [][/\ \A t \in Tasks :
              (/\ task[t].pc = "ipr_probe"
               /\ task[t].child_arc = "none"
               /\ task'[t] # task[t])
                  => IF task[t].op = "is_process_running"
                     THEN task'[t].pc = "done" /\ task'[t].ret = "false"
                     ELSE task[t].run_id \in task'[t].finished
       /\ (/\ task["t1"].op = "cleanup_finished_processes"
           /\ task["t1"].pc # "done"
           /\ task'["t1"].pc = "done"
           /\ task'["t1"].ret = "ok")
              => \A k \in DOMAIN processes :
                     processes[k].child = "none"
                         => /\ k \notin DOMAIN processes'
                            /\ k \in task'["t1"].finished
      ]_vars

\* a sweep has returned the ids of a sidecar and of a session, the only
\* records of the table, while the processes of both pids are alive and no
\* child handle was ever held
C35_LiveSidecarAndSessionSwept ==
    /\ task["t1"].op = "cleanup_finished_processes"
    /\ task["t1"].pc = "done"
    /\ task["t1"].ret = "ok"
    /\ task["t1"].finished = {1, NEXT_ID_START}
    /\ processes = << >>
    /\ \A pid \in Pids : os[pid] = "running" /\ ~child[pid]

(***************************************************************************)
(* The sweep under concurrent callers: SweepSpec                           *)
(***************************************************************************)
\* one caller runs cleanup_finished_processes step by step while other
\* callers register and unregister and one runs kill_process_by_pid;
\* processes exit at any time
SweepNext ==
    \/ \E pid \in Pids : Exit(pid) /\ UNCHANGED <<notReg, histVars>>
    \/ \E run_id \in RunIds, pid \in Pids :
           register_process(run_id, pid) /\ UNCHANGED <<notReg, histVars>>
    \/ \E run_id \in RunIds, pid \in Pids :
           register_sidecar_process(run_id, pid)
               /\ UNCHANGED <<notReg, histVars>>
    \/ \E run_id \in RunIds :
           unregister_process(run_id) /\ UNCHANGED <<notReg, histVars>>
    \/ cf_snapshot("t1") /\ UNCHANGED <<notReg, histVars>>
    \/ cf_next("t1") /\ UNCHANGED <<notReg, histVars>>
    \/ ipr_probe("t1") /\ UNCHANGED <<notReg, histVars>>
    \/ cf_remove("t1") /\ UNCHANGED <<notReg, histVars>>
    \/ \E run_id \in RunIds, pid \in Pids :
           kbp_call("t2", run_id, pid) /\ UNCHANGED <<notReg, histVars>>
    \/ kbp_term("t2") /\ UNCHANGED <<notReg, histVars>>
    \/ kbp_grace("t2") /\ UNCHANGED <<notReg, histVars>>
    \/ kbp_kill("t2") /\ UNCHANGED <<notReg, histVars>>
    \/ kbp_finish("t2") /\ UNCHANGED <<notReg, histVars>>
    \/ \E t \in Tasks : Return(t) /\ UNCHANGED <<notReg, histVars>>

SweepSpec == LinuxInit /\ [][SweepNext]_vars

(***************************************************************************)
(* Claims about the sweep under concurrent callers (SweepSpec)             *)
(***************************************************************************)
\* C36: whatever registers, unregisters and kills run between its two
\* phases, the sweep removes only records it probed as not running: a record
\* registered under a probed run id after the probe, whose child handle is
\* held and whose process is running, is not removed.
C36_RunningRecordNotSwept ==
    [][\A t \in Tasks :
           cf_remove(t)
               => \A k \in DOMAIN processes \ DOMAIN processes' :
                      ~(/\ HoldsChild(processes[k].child)
                        /\ os[processes[k].child] = "running")]_vars

(***************************************************************************)
(* Two concurrent calls of kill_process: PairSpec                          *)
(***************************************************************************)
\* no call is in progress and no result is waiting to be taken
AllIdle == \A t \in Tasks : task[t] = Idle

\* the callers take their results once no call is in progress
PairReturn ==
    /\ \A t \in Tasks : task[t].pc \in {"idle", "done"}
    /\ \E t \in Tasks : task[t].pc = "done"
    /\ task' = [t \in Tasks |-> Idle]
    /\ UNCHANGED <<processes, next_id, table_lock, child, os, target_os>>

\* run 1 is registered while no call is in progress; then each caller calls
\* kill_process(1) at most once, at any time, and their steps interleave in
\* any order; processes exit at any time
PairNext ==
    \/ \E pid \in Pids : Exit(pid) /\ UNCHANGED <<notReg, histVars>>
    \/ \E pid \in Pids :
           AllIdle /\ register_process(1, pid)
               /\ UNCHANGED <<notReg, histVars>>
    \/ \E pid \in Pids :
           AllIdle /\ register_sidecar_process(1, pid)
               /\ UNCHANGED <<notReg, histVars>>
    \/ \E t \in Tasks : kp_lookup(t, 1) /\ UNCHANGED <<notReg, histVars>>
    \/ \E t \in Tasks : kp_start_kill(t) /\ UNCHANGED <<notReg, histVars>>
    \/ \E t \in Tasks : kp_wait(t) /\ UNCHANGED <<notReg, histVars>>
    \/ \E t \in Tasks : kp_wake(t) /\ UNCHANGED <<notReg, histVars>>
    \/ \E t \in Tasks : kp_timeout(t) /\ UNCHANGED <<notReg, histVars>>
    \/ \E t \in Tasks : kp_unregister(t) /\ UNCHANGED <<notReg, histVars>>
    \/ \E t \in Tasks : kbp_term(t) /\ UNCHANGED <<notReg, histVars>>
    \/ \E t \in Tasks : kbp_grace(t) /\ UNCHANGED <<notReg, histVars>>
    \/ \E t \in Tasks : kbp_kill(t) /\ UNCHANGED <<notReg, histVars>>
    \/ \E t \in Tasks : kbp_finish(t) /\ UNCHANGED <<notReg, histVars>>
    \/ PairReturn /\ UNCHANGED <<notReg, histVars>>

\* a fair scheduler: a call in progress whose next step is possible takes it
PairSpec ==
    /\ Init
    /\ [][PairNext]_vars
    /\ \A t \in Tasks :
           WF_vars(KillSteps(t) /\ UNCHANGED <<notReg, histVars>>)

(***************************************************************************)
(* Claims about concurrent calls of kill_process (PairSpec)                *)
(***************************************************************************)
\* this step is the lookup of a call of kill_process by t that returns false
ReturnsFalse(t) ==
    /\ task[t] = Idle
    /\ task'[t].op = "kill_process"
    /\ task'[t].ret = "false"

\* C38: of two calls of kill_process on the same run id, with no register
\* during them, each one returns, and returns true or false; a call that
\* found the record returns true, so at least one does; a call returns false
\* only from a lookup that finds no record, the other call, if it found the
\* record, having removed it (in its own last step, or in the kill by pid
\* it called after the timeout); and once a call has returned the record
\* is absent.
C38_ConcurrentKills ==
    /\ [](\A t \in Tasks :
              (task[t].op = "kill_process" /\ task[t].pc = "done")
                  => /\ task[t].ret \in {"true", "false"}
                     /\ task[t].found = "present" => task[t].ret = "true"
                     /\ task[t].run_id \notin DOMAIN processes)
    /\ [][\A t, u \in Tasks :
              (ReturnsFalse(t) /\ u # t)
                  => /\ task'[t].run_id \notin DOMAIN processes
                     /\ (task[u].op = "kill_process"
                             /\ task[u].found = "present")
                            => \/ task[u].pc = "done" /\ task[u].ret = "true"
                               \/ /\ task[u].pc = "kp_unregister"
                                  /\ task[u].from = "timeout"
       ]_vars
    /\ (task["t1"].op = "kill_process") ~> (task["t1"].pc = "done")
    /\ (task["t2"].op = "kill_process") ~> (task["t2"].pc = "done")

\* both callers found the record of run 1, whose child one of them left
\* running and uncleared, and both have returned true
C38_BothReturnedTrue ==
    /\ \A t \in Tasks :
           /\ task[t].op = "kill_process"
           /\ task[t].pc = "done"
           /\ task[t].found = "present"
           /\ task[t].ret = "true"
           /\ task[t].child_arc # "none"
    /\ 1 \notin DOMAIN processes

====
